---- MODULE Spec2Model ----
(***************************************************************************)
(* Model of the agent execution loop of OpenManus-js:                      *)
(*   BaseAgent.run / saveContext      (src/src/agent/base.ts)              *)
(*   ReactAgent.step                  (src/src/agent/react.ts)             *)
(*   Memory, ToolCallAgent            (src/src/memory.ts)                  *)
(*   ToolCollection.execute           (src/unnamed/part_008)               *)
(*   Manus.cleanup                    (src/src/agent/manus.ts)             *)
(*   PlanningTool                     (src/src/tool/terminal.ts)           *)
(*   PlanningFlow                     (src/src/flow/planning.ts)           *)
(*   logger                           (src/src/logger.ts)                  *)
(* Manus.think awaits initializeMcpServers(), which does nothing, reads     *)
(* nextStepPrompt, awaits ToolCallAgent.think and writes the prompt it read *)
(* back; the first await is folded into the step's first job.              *)
(*                                                                         *)
(* JavaScript runs one job at a time.  An action of this model is one job: *)
(* the code between two suspension points.  The suspension points kept     *)
(* are the ones at which something outside the agent has to happen: the    *)
(* LLM call (llm.askTool), a tool's execute, the abstract step() of a      *)
(* plain BaseAgent subclass, and the `await fun()` of saveContext, whose   *)
(* continuation (catch/finally) is a microtask queued when the loop        *)
(* function settles, and the `await super.run()` of ToolCallAgent.run.     *)
(* Microtasks run before any I/O completion is delivered, so LLM and tool  *)
(* completions wait for these continuations; a caller's job that is        *)
(* already queued can still run before them.  Awaits on calls that only    *)
(* chain promises (await think(), await act(), await executeTool(), await  *)
(* handleSpecialTool()) are folded into the job that precedes them.        *)
(***************************************************************************)
EXTENDS Integers, Sequences, FiniteSets, TLC

\* ---- bounds of the model ------------------------------------------------
NumCallers == 2        \* run() invocations issued by the environment
MaxStepsBound == 2     \* maxSteps is drawn from 0..MaxStepsBound
MaxLlmCalls == 2       \* LLM responses delivered in one behaviour
\* bounds of SpecRace: more run() invocations and LLM responses, fewer inputs
RaceCallers == 3
RaceLlmCalls == 4
\* bound of SpecAct: tool calls in the one LLM response of a behaviour
ActCalls == 3
\* bounds of SpecMemory: the cap, the messages added, the list given to
\* addMessages, the n given to getRecentMessages
MaxCap == 3
MaxAdded == 5
MaxBatch == 2
MaxRecent == 4
\* bounds of SpecCap: maxSteps and the LLM responses of a behaviour
CapSteps == 4
CapLlmCalls == 3
\* bound of SpecPlan and SpecFlow: the steps of a plan an input may carry
MaxPlanSteps == 1
\* bounds of SpecFlow: the run() invocations that are accepted, the steps of
\* the plan the LLM asks for, the planning commands issued beside the flow,
\* and the LLM responses the executor gets
FlowRuns == 3
FlowSteps == 2
FlowCommands == 1
FlowLlmCalls == 2

\* ---- program constants --------------------------------------------------
maxMessages == 100
duplicateThreshold == 2

Callers == 1..NumCallers

AgentState == {"IDLE", "RUNNING", "FINISHED", "ERROR"}
ToolChoice == {"none", "auto", "required"}

\* names the tool collection is keyed by (toolMap), and the special names
toolMap == {"bash", "Terminate"}
specialToolNames == <<"terminate">>
\* names an LLM response may carry; "terminate" is not a key of toolMap
LlmToolNames == {"bash", "Terminate", "terminate"}

\* String.prototype.toLowerCase on the names of the model
toLowerCase(n) == IF n = "Terminate" THEN "terminate" ELSE n

VARIABLES
  agentKind,      \* "base": subclass with an opaque step(); "toolcall": ToolCallAgent;
                  \* "manus": Manus
  cleanable,      \* the tools of availableTools.toolMap that have a cleanup(), in map order
  memoryCap,      \* BaseAgent.memory.maxMessages
  memLog,         \* history of the Memory calls made from outside the agent
  toolChoices,    \* ToolCallAgent.toolChoices
  maxSteps,       \* BaseAgent.maxSteps
  state,          \* BaseAgent.state
  currentStep,    \* BaseAgent.currentStep
  memory,         \* BaseAgent.memory.messages
  toolCalls,      \* ToolCallAgent.toolCalls
  nextStepPrompt, \* BaseAgent.nextStepPrompt: 0 = undefined, n = n corrective sentences prepended
  llmCalls,       \* number of LLM responses delivered so far
  finishedEver,   \* history: some step has set state to FINISHED
  call,           \* per run() invocation: position of the caller and what it got
  loop,           \* per run() invocation: the locals of run/saveContext/act
  plans,          \* PlanningTool.plans: the own keys of the object and their plans
  currentPlanId,  \* PlanningTool.currentPlanId
  planLog,        \* history: the last planning command and how it ended
  flow            \* PlanningFlow: activePlanId, currentStepIndex, position of execute()

vars == <<plans, currentPlanId, planLog, flow, agentKind, cleanable, memoryCap, memLog, toolChoices, maxSteps, state, currentStep, memory,
          toolCalls, nextStepPrompt, llmCalls, finishedEver, call, loop>>

\* the run() invocations of the behaviour at hand
Runs == DOMAIN call

\* ---- messages -----------------------------------------------------------
\* A text is a record so that texts of different shapes stay comparable.
Text(k) == [k |-> k, n |-> 0]
EmptyText == Text("")
NoId == <<0, 0>>

userMessage(content) ==
  [role |-> "user", content |-> content, tool_calls |-> <<>>, tool_call_id |-> NoId]

assistantMessage(content) ==
  [role |-> "assistant", content |-> content, tool_calls |-> <<>>, tool_call_id |-> NoId]

fromToolCalls(calls, content) ==
  [role |-> "assistant", content |-> content, tool_calls |-> calls, tool_call_id |-> NoId]

toolMessage(content, id) ==
  [role |-> "tool", content |-> content, tool_calls |-> <<>>, tool_call_id |-> id]

\* JavaScript truthiness of a string
Truthy(content) == content # EmptyText

\* Array.prototype.slice(start) with an integer start, negative or not
slice(msgs, start) ==
  LET len == Len(msgs)
      k == IF start < 0 THEN (IF len + start > 0 THEN len + start ELSE 0)
           ELSE (IF start < len THEN start ELSE len)
  IN SubSeq(msgs, k + 1, len)

\* Memory.addMessage: push, then keep the last maxMessages
addMessage(msgs, m) ==
  LET s == Append(msgs, m)
  IN IF Len(s) > memoryCap THEN slice(s, Len(s) - memoryCap) ELSE s

\* Memory.addMessages: push all, then keep the last maxMessages
addMessages_noEvict(msgs, ms) == msgs \o ms

addMessages(msgs, ms) ==
  LET s == msgs \o ms
  IN IF Len(s) > memoryCap THEN slice(s, Len(s) - memoryCap) ELSE s

\* Memory.getRecentMessages
getRecentMessages(msgs, n) == slice(msgs, Len(msgs) - n)

\* nothing has been asked of the memory from outside yet
NoLog == [added |-> <<>>, n |-> 0, recent |-> <<>>, asked |-> FALSE]

\* the content of the user message think() pushes: the prompt with n
\* corrective sentences in front of it
PromptText(n) == [k |-> "nextStepPrompt", n |-> n]

\* ---- BaseAgent.isStuck / handleStuckState -------------------------------
isStuck_offByOne(msgs) ==
  IF Len(msgs) < 2 THEN FALSE
  ELSE LET lastMessage == msgs[Len(msgs)]
       IN IF ~Truthy(lastMessage.content) THEN FALSE
          ELSE Cardinality({i \in 1..(Len(msgs) - 1) :
                              /\ msgs[i].role = "assistant"
                              /\ msgs[i].content = lastMessage.content})
                 > duplicateThreshold

isStuck(msgs) ==
  IF Len(msgs) < 2 THEN FALSE
  ELSE LET lastMessage == msgs[Len(msgs)]
       IN IF ~Truthy(lastMessage.content) THEN FALSE
          ELSE Cardinality({i \in 1..(Len(msgs) - 1) :
                              /\ msgs[i].role = "assistant"
                              /\ msgs[i].content = lastMessage.content})
                 >= duplicateThreshold

handleStuckState(a) == [a EXCEPT !.nextStepPrompt = @ + 1]

\* ---- what run() records and returns -------------------------------------
NoResult == [k |-> "none", obs |-> <<>>]
StepRecord(n, r) == [rec |-> "Step", n |-> n, r |-> r]
TerminatedRecord(n) == [rec |-> "Terminated", n |-> n, r |-> NoResult]
NoStepsExecuted == [rec |-> "NoStepsExecuted", n |-> 0, r |-> NoResult]

\* results.length ? results.join('\n') : 'No steps executed'
RunText(results) == IF Len(results) > 0 THEN results ELSE <<NoStepsExecuted>>

\* ---- records the operators below pass around ----------------------------
TheAgent ==
  [state |-> state, currentStep |-> currentStep, memory |-> memory,
   toolCalls |-> toolCalls, nextStepPrompt |-> nextStepPrompt,
   finishedEver |-> finishedEver]

\* what the latest think() of a loop was given and what it returned
NoThought == [kind |-> "none", content |-> EmptyText, calls |-> 0, ret |-> FALSE]

NoLoop ==
  [pc |-> "none", prevState |-> "IDLE", results |-> <<>>, calls |-> <<>>,
   idx |-> 0, actResults |-> <<>>, observed |-> <<>>, begun |-> 0, specialAt |-> 0,
   thought |-> NoThought, originalPrompt |-> 0, startStep |-> 0]

NoCall ==
  [pc |-> "ready", kind |-> "none", text |-> <<>>, seen |-> "IDLE", request |-> FALSE,
   cleaned |-> <<>>]

\* loop positions at which a step is in progress
ActivePc == {"think", "tool", "step"}
\* loop positions at which the continuation of saveContext is queued
SettledPc == {"returned", "rejected"}

\* ---- BaseAgent.run: the loop inside saveContext -------------------------
\* ToolCallAgent.think up to the LLM call: the prompt is pushed onto the
\* message array itself, not through addMessage
ThinkBegin(a) ==
  IF a.nextStepPrompt > 0
  THEN [a EXCEPT !.memory = Append(@, userMessage(PromptText(a.nextStepPrompt)))]
  ELSE a

\* this.step() up to its first suspension
StepBegin(a, l) ==
  IF agentKind = "base"
  THEN [a |-> a, l |-> [l EXCEPT !.pc = "step", !.begun = @ + 1]]
  ELSE [a |-> ThinkBegin(a),
        l |-> [l EXCEPT !.pc = "think", !.begun = @ + 1,
                        \* Manus.think: const originalPrompt = this.nextStepPrompt
                        !.originalPrompt = IF agentKind = "manus" THEN a.nextStepPrompt
                                           ELSE @]]

\* after the while loop: the step-limit branch, then the function returns
LoopExit(a, l) ==
  IF a.currentStep >= maxSteps
  THEN [a |-> [a EXCEPT !.state = "IDLE", !.currentStep = 0],
        l |-> [l EXCEPT !.results = Append(@, TerminatedRecord(maxSteps)),
                        !.pc = "returned"]]
  ELSE [a |-> a, l |-> [l EXCEPT !.pc = "returned"]]

\* the while condition and the head of the body
LoopHead(a, l) ==
  IF a.currentStep < maxSteps /\ a.state # "FINISHED"
  THEN StepBegin([a EXCEPT !.currentStep = @ + 1], l)
  ELSE LoopExit(a, l)

\* the body after `await this.step()`
AfterStep(a, l, stepResult) ==
  LET a1 == IF isStuck(a.memory) THEN handleStuckState(a) ELSE a
      l1 == [l EXCEPT !.results = Append(@, StepRecord(a.currentStep, stepResult))]
  IN LoopHead(a1, l1)

\* step() rejected: the loop function's promise rejects
StepRaise(a, l) == [a |-> a, l |-> [l EXCEPT !.pc = "rejected"]]

\* saveContext up to `await fun()`
saveContextEnter(a, l) ==
  LoopHead([a EXCEPT !.state = "RUNNING"],
           [l EXCEPT !.prevState = a.state, !.startStep = a.currentStep])

\* saveContext after `await fun()`: catch (when fun rejected), then finally
saveContextLeave_noFinally(cur, prevState, threw) ==
  IF threw THEN "ERROR" ELSE cur

saveContextLeave(cur, prevState, threw) ==
  LET afterCatch == IF threw THEN "ERROR" ELSE cur
      afterFinally == prevState
  IN afterFinally

\* ---- ToolCallAgent.think after the LLM call ------------------------------
\* the catch block of think; `threw` says whether think itself throws
ErrorEncountered == Text("Error encountered while processing")

ThinkCatch_rethrow(a) == [a |-> a, ret |-> FALSE, threw |-> TRUE]

ThinkCatch(a) ==
  [a |-> [a EXCEPT !.memory = addMessage(@, assistantMessage(ErrorEncountered))],
   ret |-> FALSE, threw |-> FALSE]

think(a, response) ==
  IF response.kind = "throw" THEN ThinkCatch(a)
  ELSE
    LET calls == IF response.kind = "null" THEN <<>> ELSE response.tool_calls
        content == IF response.kind = "null" THEN EmptyText ELSE response.content
        a1 == [a EXCEPT !.toolCalls = calls]
    IN IF response.kind = "null" THEN ThinkCatch(a1)
       ELSE IF toolChoices = "none"
       THEN IF Truthy(content)
            THEN [a |-> [a1 EXCEPT !.memory = addMessage(@, assistantMessage(content))],
                  ret |-> TRUE, threw |-> FALSE]
            ELSE [a |-> a1, ret |-> FALSE, threw |-> FALSE]
       ELSE
         LET assistantMsg == IF Len(calls) > 0 THEN fromToolCalls(calls, content)
                             ELSE assistantMessage(content)
             a2 == [a1 EXCEPT !.memory = addMessage(@, assistantMsg)]
         IN [a |-> a2,
             ret |-> IF toolChoices = "required" /\ Len(calls) = 0 THEN TRUE
                     ELSE IF toolChoices = "auto" /\ Len(calls) = 0 THEN Truthy(content)
                     ELSE Len(calls) > 0,
             threw |-> FALSE]

\* ---- ToolCallAgent.executeTool ------------------------------------------
ObsUnknownTool == Text("Error: Unknown tool")
ObsInvalidJson == Text("Error: Error parsing arguments: Invalid JSON format")
ObsProblem == Text("Error: Tool encountered a problem")
ObsOutput == Text("Observed output of cmd executed: <output>")
ObsFailure == Text("Observed output of cmd executed: Error: <message>")

isSpecialTool(name) ==
  \E i \in DOMAIN specialToolNames :
     toLowerCase(specialToolNames[i]) = toLowerCase(name)

shouldFinishExecution(name, result) == TRUE

handleSpecialTool(a, name, result) ==
  IF ~isSpecialTool(name) THEN a
  ELSE IF shouldFinishExecution(name, result)
       THEN [a EXCEPT !.state = "FINISHED", !.finishedEver = TRUE]
       ELSE a

\* executeTool up to availableTools.execute: "unknown", "syntax" (JSON.parse
\* threw a SyntaxError, caught), "dispatch" (the tool's execute is pending);
\* "raise" would be an exception leaving executeTool, which its try/catch
\* around JSON.parse and the execution rules out
executeToolBefore_parseOutsideTry(command) ==
  IF command.name \notin toolMap THEN "unknown"
  ELSE IF command.arguments = "bad" THEN "raise"
  ELSE "dispatch"

executeToolBefore(command) ==
  IF command.name \notin toolMap THEN "unknown"
  ELSE IF command.arguments = "bad" THEN "syntax"
  ELSE "dispatch"

\* ToolCollection.execute once the tool's execute has settled.
\* outcome: "ok" (a ToolResult), "throw", "undefined" (resolved with no value)
execute(name, outcome) ==
  IF name \notin toolMap THEN [threw |-> FALSE, result |-> "ToolFailure"]
  ELSE IF outcome = "throw" THEN [threw |-> FALSE, result |-> "ToolFailure"]
  ELSE IF outcome = "undefined" THEN [threw |-> FALSE, result |-> "undefined"]
  ELSE [threw |-> FALSE, result |-> "ToolResult"]

\* executeTool after availableTools.execute
executeToolAfter(a, command, outcome) ==
  LET r == execute(command.name, outcome)
  IN IF r.threw
     THEN [a |-> a, obs |-> ObsProblem, threw |-> FALSE]
     ELSE LET a1 == handleSpecialTool(a, command.name, r.result)
          IN IF r.result = "undefined"
             \* `'base64Image' in result` throws a TypeError, caught below
             THEN [a |-> a1, obs |-> ObsProblem, threw |-> FALSE]
             ELSE [a |-> a1,
                   obs |-> IF r.result = "ToolFailure" THEN ObsFailure ELSE ObsOutput,
                   threw |-> FALSE]

\* ---- ToolCallAgent.act ---------------------------------------------------
\* `!this.toolCalls`: toolCalls is always an array, and an array is truthy
toolCallsMissing(calls) == FALSE

\* the tail of one iteration of act's for loop
actRecord_firstId(a, l, command, obs, how) ==
  [a |-> [a EXCEPT !.memory = addMessage(@, toolMessage(obs, l.calls[1].id))],
   l |-> [l EXCEPT !.actResults = Append(@, obs),
                   !.observed = Append(@, [id |-> l.calls[1].id, obs |-> obs, how |-> how]),
                   !.idx = @ + 1]]

actRecord(a, l, command, obs, how) ==
  [a |-> [a EXCEPT !.memory = addMessage(@, toolMessage(obs, command.id))],
   l |-> [l EXCEPT !.actResults = Append(@, obs),
                   !.observed = Append(@, [id |-> command.id, obs |-> obs, how |-> how]),
                   !.idx = @ + 1]]

ActResult(obs) == [k |-> "act", obs |-> obs]

\* act's for loop from position l.idx on, up to the next pending tool or,
\* when the calls are used up, on through the rest of the run loop's body
RECURSIVE actLoop(_, _)
actLoop(a, l) ==
  IF l.idx > Len(l.calls)
  THEN AfterStep(a, l, ActResult(l.actResults))
  ELSE LET command == l.calls[l.idx]
           before == executeToolBefore(command)
       IN IF before = "dispatch"
          THEN [a |-> a, l |-> [l EXCEPT !.pc = "tool"]]
          ELSE IF before = "raise"
          \* act has no try/catch: what executeTool throws, act throws
          THEN StepRaise(a, l)
          ELSE LET n == actRecord(a, l, command,
                                  IF before = "unknown" THEN ObsUnknownTool
                                  ELSE ObsInvalidJson, before)
               IN actLoop(n.a, n.l)

act(a, l) ==
  IF toolCallsMissing(a.toolCalls)
  THEN IF toolChoices = "required"
       THEN StepRaise(a, l)
       ELSE AfterStep(a, l,
              [k |-> "content",
               obs |-> IF Len(a.memory) > 0 /\ Truthy(a.memory[Len(a.memory)].content)
                       THEN <<a.memory[Len(a.memory)].content>>
                       ELSE <<Text("No content or commands to execute")>>])
  ELSE actLoop(a, [l EXCEPT !.calls = a.toolCalls, !.idx = 1,
                            !.actResults = <<>>, !.observed = <<>>])

\* ReactAgent.step after the LLM call has settled
ThinkingComplete == [k |-> "Thinking complete - no action needed", obs |-> <<>>]

\* the think() that step() awaits: ToolCallAgent.think, and for Manus the
\* assignment that follows `await super.think(model)`
thinkOf(a, l, response) ==
  LET t == think(a, response)
  IN IF agentKind = "manus" /\ ~t.threw
     THEN [t EXCEPT !.a.nextStepPrompt = l.originalPrompt]
     ELSE t

step_alwaysActs(a, l, response) ==
  LET t == thinkOf(a, l, response)
      l1 == [l EXCEPT !.thought = [kind |-> response.kind, content |-> response.content,
                                   calls |-> Len(response.tool_calls), ret |-> t.ret]]
  IN IF t.threw THEN StepRaise(t.a, l1)
     ELSE act(t.a, l1)

step(a, l, response) ==
  LET t == thinkOf(a, l, response)
      l1 == [l EXCEPT !.thought = [kind |-> response.kind, content |-> response.content,
                                   calls |-> Len(response.tool_calls), ret |-> t.ret]]
  IN IF t.threw THEN StepRaise(t.a, l1)
     ELSE IF ~t.ret THEN AfterStep(t.a, l1, ThinkingComplete)
     ELSE act(t.a, l1)

actResume_stopsWhenFinished(a, l, outcome) ==
  LET command == l.calls[l.idx]
      e == executeToolAfter(a, command, outcome)
      l1 == IF isSpecialTool(command.name) /\ l.specialAt = 0
            THEN [l EXCEPT !.specialAt = l.begun] ELSE l
  IN IF e.threw THEN StepRaise(e.a, l1)
     ELSE LET n == actRecord(e.a, l1, command, e.obs, outcome)
          IN IF n.a.state = "FINISHED"
             THEN AfterStep(n.a, n.l, ActResult(n.l.actResults))
             ELSE actLoop(n.a, n.l)

\* act after the pending tool of position l.idx has settled
actResume(a, l, outcome) ==
  LET command == l.calls[l.idx]
      e == executeToolAfter(a, command, outcome)
      l1 == IF isSpecialTool(command.name) /\ l.specialAt = 0
            THEN [l EXCEPT !.specialAt = l.begun] ELSE l
  IN IF e.threw THEN StepRaise(e.a, l1)
     ELSE LET n == actRecord(e.a, l1, command, e.obs, outcome)
          IN actLoop(n.a, n.l)

\* ---- inputs ---------------------------------------------------------------
CallShapes == [name : LlmToolNames, arguments : {"ok", "bad"}]

\* the tool-call lists of at most `room` calls response number n may carry
ToolCallLists(n, room) ==
  UNION {{[i \in 1..k |-> [id |-> <<n, i>>, name |-> f[i].name,
                           arguments |-> f[i].arguments]] :
            f \in [1..k -> CallShapes]} : k \in 1..room}

Contents == {EmptyText, Text("X")}

\* what llm.askTool may settle with: a throw, no response, or a message
Responses(n, room) ==
  {[kind |-> "throw", content |-> EmptyText, tool_calls |-> <<>>],
   [kind |-> "null", content |-> EmptyText, tool_calls |-> <<>>]}
  \cup {[kind |-> "message", content |-> ct, tool_calls |-> <<>>] : ct \in Contents}
  \cup {[kind |-> "message", content |-> ct, tool_calls |-> tc] :
          ct \in Contents, tc \in ToolCallLists(n, room)}

ToolOutcomes == {"ok", "throw", "undefined"}
StepOutcomes == {"return", "raise", "finish"}

\* ---- PlanningTool (src/src/tool/terminal.ts) ----------------------------
PlanStatus == {"not_started", "in_progress", "completed", "blocked"}

\* a plan id that is undefined or '': both are falsy
NoPlanId == ""

\* `plans` is an object literal, so `id in this.plans` also holds for the
\* property names it inherits from Object.prototype
InheritedKeys == {"constructor"}

NoPlans == [id \in {} |-> 0]

\* the parameters of execute(); an absent string is '', and `given` names
\* the fields steps and step_index when they are present
NoArgs == [command |-> "", plan_id |-> NoPlanId, title |-> "", steps |-> <<>>,
           step_index |-> 0, step_status |-> "", step_notes |-> "", given |-> {}]

NoPlanLog == [command |-> "", threw |-> "none", n |-> 0]

\* planId in this.plans
InPlans(p, planId) == planId \in DOMAIN p \/ planId \in InheritedKeys

\* a command ends by throwing e, the tool as it is at that point
Threw(p, cur, e) == [plans |-> p, currentPlanId |-> cur, threw |-> e]

\* a command ends by returning a ToolResult with status text
ToolResult(p, cur) == [plans |-> p, currentPlanId |-> cur, threw |-> "none"]

\* formatPlan(this.plans[planId]): for an inherited key the value is not a
\* plan and reading plan.steps.length throws a TypeError
formatPlan(p, cur, planId) ==
  IF planId \in DOMAIN p THEN ToolResult(p, cur) ELSE Threw(p, cur, "TypeError")

\* an element of `steps` that is not a string (a number of the JSON input)
NonString == "<number>"

\* steps.every(step => typeof step === 'string')
everyString(steps) == \A i \in DOMAIN steps : steps[i] # NonString

createPlan_keepsNotes(p, cur, args) ==
  IF args.plan_id = NoPlanId THEN Threw(p, cur, "ToolError")
  ELSE IF InPlans(p, args.plan_id) THEN Threw(p, cur, "ToolError")
  ELSE IF args.title = "" THEN Threw(p, cur, "ToolError")
  ELSE IF "steps" \notin args.given \/ Len(args.steps) = 0 \/ ~everyString(args.steps)
  THEN Threw(p, cur, "ToolError")
  ELSE LET plan == [title |-> args.title, steps |-> args.steps,
                    step_statuses |-> [i \in 1..Len(args.steps) |-> "not_started"],
                    step_notes |-> <<>>]
       IN ToolResult([id \in DOMAIN p \cup {args.plan_id} |->
                        IF id = args.plan_id THEN plan ELSE p[id]], args.plan_id)

createPlan(p, cur, args) ==
  IF args.plan_id = NoPlanId THEN Threw(p, cur, "ToolError")
  ELSE IF InPlans(p, args.plan_id) THEN Threw(p, cur, "ToolError")
  ELSE IF args.title = "" THEN Threw(p, cur, "ToolError")
  ELSE IF "steps" \notin args.given \/ Len(args.steps) = 0 \/ ~everyString(args.steps)
  THEN Threw(p, cur, "ToolError")
  ELSE LET plan == [title |-> args.title, steps |-> args.steps,
                    step_statuses |-> [i \in 1..Len(args.steps) |-> "not_started"],
                    step_notes |-> [i \in 1..Len(args.steps) |-> ""]]
       IN ToolResult([id \in DOMAIN p \cup {args.plan_id} |->
                        IF id = args.plan_id THEN plan ELSE p[id]], args.plan_id)

retained_byIndex(old, steps, field, fresh) ==
  [i \in 1..Len(steps) |-> IF i <= Len(old.steps) THEN field[i] ELSE fresh]

\* the statuses and notes updatePlan builds for a new step list
retained(old, steps, field, fresh) ==
  [i \in 1..Len(steps) |->
     IF i <= Len(old.steps) /\ steps[i] = old.steps[i] THEN field[i] ELSE fresh]

\* `if (title) plan.title = title`, which comes before the step list is
\* looked at; for an inherited key it writes to a function object that is
\* no part of the tool
retitled(p, args) ==
  IF args.plan_id \in DOMAIN p /\ args.title # ""
  THEN [p EXCEPT ![args.plan_id].title = args.title] ELSE p

\* for an inherited key `plan` is a function object without steps: with a
\* non-empty step list reading oldSteps.length throws, without a step list
\* formatPlan throws
updatePlan(p, cur, args) ==
  IF args.plan_id = NoPlanId THEN Threw(p, cur, "ToolError")
  ELSE IF ~InPlans(p, args.plan_id) THEN Threw(p, cur, "ToolError")
  ELSE IF "steps" \in args.given /\ ~everyString(args.steps)
  THEN Threw(retitled(p, args), cur, "ToolError")
  ELSE IF args.plan_id \notin DOMAIN p THEN Threw(p, cur, "TypeError")
  ELSE LET plan == p[args.plan_id]
           p1 == IF args.title # "" THEN [plan EXCEPT !.title = args.title] ELSE plan
           p2 == IF "steps" \in args.given
                 THEN [p1 EXCEPT
                         !.steps = args.steps,
                         !.step_statuses =
                            retained(plan, args.steps, plan.step_statuses, "not_started"),
                         !.step_notes = retained(plan, args.steps, plan.step_notes, "")]
                 ELSE p1
       IN ToolResult([p EXCEPT ![args.plan_id] = p2], cur)

listPlans(p, cur) == ToolResult(p, cur)

getPlan(p, cur, args) ==
  IF args.plan_id = NoPlanId /\ cur = NoPlanId THEN Threw(p, cur, "ToolError")
  ELSE LET planId == IF args.plan_id = NoPlanId THEN cur ELSE args.plan_id
       IN IF ~InPlans(p, planId) THEN Threw(p, cur, "ToolError")
          ELSE formatPlan(p, cur, planId)

setActivePlan(p, cur, args) ==
  IF args.plan_id = NoPlanId THEN Threw(p, cur, "ToolError")
  ELSE IF ~InPlans(p, args.plan_id) THEN Threw(p, cur, "ToolError")
  ELSE formatPlan(p, args.plan_id, args.plan_id)

markStep(p, cur, args) ==
  IF args.plan_id = NoPlanId /\ cur = NoPlanId THEN Threw(p, cur, "ToolError")
  ELSE LET planId == IF args.plan_id = NoPlanId THEN cur ELSE args.plan_id
       IN IF ~InPlans(p, planId) THEN Threw(p, cur, "ToolError")
          ELSE IF "step_index" \notin args.given THEN Threw(p, cur, "ToolError")
          ELSE IF planId \notin DOMAIN p THEN Threw(p, cur, "TypeError")
          ELSE IF args.step_index < 0 \/ args.step_index >= Len(p[planId].steps)
          THEN Threw(p, cur, "ToolError")
          ELSE IF args.step_status # "" /\ args.step_status \notin PlanStatus
          THEN Threw(p, cur, "ToolError")
          ELSE LET i == args.step_index + 1
                   p1 == IF args.step_status # ""
                         THEN [p[planId] EXCEPT !.step_statuses[i] = args.step_status]
                         ELSE p[planId]
                   p2 == IF args.step_notes # ""
                         THEN [p1 EXCEPT !.step_notes[i] = args.step_notes]
                         ELSE p1
               IN ToolResult([p EXCEPT ![planId] = p2], cur)

\* `delete this.plans[planId]` removes an own key and does nothing for an
\* inherited one
deletePlan(p, cur, args) ==
  IF args.plan_id = NoPlanId THEN Threw(p, cur, "ToolError")
  ELSE IF ~InPlans(p, args.plan_id) THEN Threw(p, cur, "ToolError")
  ELSE ToolResult([id \in DOMAIN p \ {args.plan_id} |-> p[id]],
                  IF cur = args.plan_id THEN NoPlanId ELSE cur)

\* PlanningTool.execute(params)
planningExecute(p, cur, args) ==
  CASE args.command = "create" -> createPlan(p, cur, args)
    [] args.command = "update" -> updatePlan(p, cur, args)
    [] args.command = "list" -> listPlans(p, cur)
    [] args.command = "get" -> getPlan(p, cur, args)
    [] args.command = "set_active" -> setActivePlan(p, cur, args)
    [] args.command = "mark_step" -> markStep(p, cur, args)
    [] args.command = "delete" -> deletePlan(p, cur, args)
    [] OTHER -> Threw(p, cur, "ToolError")

\* ---- PlanningFlow (src/src/flow/planning.ts) -----------------------------
\* activePlanId and currentStepIndex (-1 = undefined) are the fields of the
\* flow; pc is the position of execute(), c the run() invocation it waits
\* for, planned what createInitialPlan found in the LLM response, last the
\* outcome of the last executeStep, ret what execute() returned
NoFlow == [pc |-> "idle", activePlanId |-> NoPlanId, currentStepIndex |-> -1,
           c |-> 0, planned |-> "", last |-> "", ret |-> ""]

getActiveStatuses_onlyNotStarted == {"not_started"}

\* PlanStepStatusUtils.getActiveStatuses()
getActiveStatuses == {"not_started", "in_progress"}

\* finalizePlan: what it returns with the LLM's summary, with the summary
\* agent.run() returned, and from the catch block around agent.run()
PlanCompleted == "Plan completed: <response>"
PlanCompletedByAgent == "Plan completed: <summary>"
PlanCompletedNoSummary == "Plan completed. Error generating summary."

\* finalizePlan after `await agent.run(summaryPrompt)`; kind is how run() settled
finalizeAfterRun(kind) ==
  IF kind = "value" THEN PlanCompletedByAgent ELSE PlanCompletedNoSummary

\* logger.warning(...): the logger is made by winston's createLogger without
\* a `levels` option, so it has the methods of the npm levels (error, warn,
\* info, http, verbose, debug, silly) and `warning` is undefined; calling it
\* throws a TypeError
loggerWarning == "TypeError"

DefaultSteps == <<"Analyze request", "Execute task", "Verify results">>

\* the first tool call createInitialPlan acts on: named 'planning', with
\* arguments that JSON.parse accepts; 0 if there is none
firstPlanningCall(calls) ==
  LET ok == {i \in 1..Len(calls) : calls[i].name = "planning" /\ calls[i].parses}
  IN IF ok = {} THEN 0 ELSE CHOOSE i \in ok : \A j \in ok : i <= j

\* createInitialPlan after `await this.llm.askTool(...)`
createInitialPlan(p, cur, planId, response) ==
  IF response.kind = "throw" THEN Threw(p, cur, "Error")
  ELSE LET k == firstPlanningCall(response.tool_calls)
       IN IF k > 0
          THEN planningExecute(p, cur, [response.tool_calls[k].args EXCEPT !.plan_id = planId])
          ELSE IF loggerWarning # "none" THEN Threw(p, cur, loggerWarning)
          ELSE planningExecute(p, cur, [NoArgs EXCEPT !.command = "create", !.plan_id = planId,
                                                       !.title = "T", !.steps = DefaultSteps,
                                                       !.given = {"steps"}])

\* the status getCurrentStepInfo reads for step i (1-based here)
statusAt(plan, i) ==
  IF i > Len(plan.step_statuses) THEN "not_started" ELSE plan.step_statuses[i]

firstActive_last(plan) ==
  LET active == {i \in 1..Len(plan.steps) : statusAt(plan, i) \in getActiveStatuses}
  IN IF active = {} THEN 0 ELSE CHOOSE i \in active : \A j \in active : i >= j

\* the loop of getCurrentStepInfo: the first step with an active status,
\* 1-based, 0 if there is none
firstActive(plan) ==
  LET active == {i \in 1..Len(plan.steps) : statusAt(plan, i) \in getActiveStatuses}
  IN IF active = {} THEN 0 ELSE CHOOSE i \in active : \A j \in active : i <= j

\* the arguments of the flow's mark_step commands
markArgs(planId, stepIndex, status) ==
  [NoArgs EXCEPT !.command = "mark_step", !.plan_id = planId, !.step_index = stepIndex,
                 !.step_status = status, !.given = {"step_index"}]

\* the catch block of markStepCompleted after logger.warning: the status
\* array is padded up to the index and the entry set
patchCompleted(p, planId, stepIndex) ==
  IF planId \notin DOMAIN p THEN p
  ELSE LET old == p[planId].step_statuses
           n == IF Len(old) > stepIndex + 1 THEN Len(old) ELSE stepIndex + 1
       IN [p EXCEPT ![planId].step_statuses =
             [i \in 1..n |-> IF i = stepIndex + 1 THEN "completed"
                             ELSE IF i <= Len(old) THEN old[i] ELSE "not_started"]]

\* markStepCompleted: mark_step, and when it throws the catch block, whose
\* first statement is logger.warning
markStepCompleted(p, cur, planId, stepIndex) ==
  LET r == markStep(p, cur, markArgs(planId, stepIndex, "completed"))
  IN IF r.threw = "none" THEN r
     ELSE IF loggerWarning # "none" THEN Threw(p, cur, loggerWarning)
     ELSE ToolResult(patchCompleted(p, planId, stepIndex), cur)

\* ---- state ----------------------------------------------------------------
Init ==
  /\ agentKind \in {"base", "toolcall"}
  /\ cleanable = <<>>
  /\ memoryCap = maxMessages
  /\ memLog = NoLog
  /\ plans = NoPlans
  /\ currentPlanId = NoPlanId
  /\ planLog = NoPlanLog
  /\ flow = NoFlow
  /\ toolChoices \in (IF agentKind = "base" THEN {"auto"} ELSE ToolChoice)
  /\ maxSteps \in 0..MaxStepsBound
  /\ state = "IDLE"
  /\ currentStep = 0
  /\ memory = <<>>
  /\ toolCalls = <<>>
  /\ nextStepPrompt = 0
  /\ llmCalls = 0
  /\ finishedEver = FALSE
  /\ call = [c \in Callers |-> NoCall]
  /\ loop = [c \in Callers |-> NoLoop]

\* write back what an operator computed for the agent and for loop c
Commit(r, c) ==
  /\ state' = r.a.state
  /\ currentStep' = r.a.currentStep
  /\ memory' = r.a.memory
  /\ toolCalls' = r.a.toolCalls
  /\ nextStepPrompt' = r.a.nextStepPrompt
  /\ finishedEver' = r.a.finishedEver
  /\ loop' = [loop EXCEPT ![c] = r.l]

\* no microtask is queued: neither a continuation of saveContext nor the
\* continuation of ToolCallAgent.run after `await super.run(request)`, nor a
\* continuation of PlanningFlow.execute, whose awaits between the LLM calls
\* and the executor's run() are on promises that are already settled
FlowMicrotask ==
  \/ flow.pc = "select"
  \/ flow.pc \in {"run", "finalRun"} /\ call[flow.c].pc \in {"ready", "done"}

NoMicrotask ==
  /\ \A d \in Runs : loop[d].pc \notin SettledPc /\ call[d].pc # "awaitSuper"
  /\ ~FlowMicrotask

\* where the caller of run() stands once BaseAgent.run has returned or thrown
AfterSuperRun == IF agentKind \in {"toolcall", "manus"} THEN "awaitSuper" ELSE "done"

\* the guard of BaseAgent.run
runRejects_onlyRunning(st) == st = "RUNNING"

runRejects(st) == st # "IDLE"

\* ---- actions --------------------------------------------------------------
\* run(request?) is called: BaseAgent.run up to its return.  saveContext is
\* called and not awaited, so run returns as soon as the loop suspends.
RunCallOf(c, requests) ==
  /\ call[c].pc = "ready"
  /\ \A d \in Runs : d < c => call[d].pc # "ready"
  /\ \E request \in requests :
       IF runRejects(state)
       THEN /\ call' = [call EXCEPT ![c] = [pc |-> AfterSuperRun, kind |-> "Error",
                                            text |-> <<>>, seen |-> state,
                                            request |-> request, cleaned |-> <<>>]]
            /\ UNCHANGED <<state, currentStep, memory, toolCalls, nextStepPrompt,
                           finishedEver, loop>>
       ELSE LET a0 == [TheAgent EXCEPT !.memory =
                         IF request THEN addMessage(@, userMessage(Text("request")))
                         ELSE @]
                r == saveContextEnter(a0, NoLoop)
            IN /\ Commit(r, c)
               /\ call' = [call EXCEPT ![c] = [pc |-> AfterSuperRun, kind |-> "value",
                                               text |-> RunText(r.l.results),
                                               seen |-> state, request |-> request,
                                               cleaned |-> <<>>]]
  /\ UNCHANGED <<plans, currentPlanId, planLog, flow, agentKind, cleanable, memoryCap, memLog, toolChoices, maxSteps, llmCalls>>

\* the tools whose cleanup() the agent's cleanup() invokes, in order:
\* ToolCallAgent.cleanup walks availableTools.toolMap; Manus.cleanup replaces
\* it, only disconnects the MCP servers and does not call super.cleanup()
cleanupTargets == IF agentKind = "manus" THEN <<>> ELSE cleanable

\* cleanup() invokes tool.cleanup() of the next target and awaits it
InvokeCleanup(k, i) ==
  [k EXCEPT !.pc = "cleanup",
            !.cleaned = Append(@, [tool |-> cleanupTargets[i], outcome |-> "pending"])]

\* ToolCallAgent.run after `await super.run(request)`: the finally block
\* calls cleanup(), which runs up to its first pending tool.cleanup(); with
\* nothing to clean the value is returned or the error re-thrown
Cleanup(c) ==
  /\ call[c].pc = "awaitSuper"
  /\ call' = [call EXCEPT ![c] = IF cleanupTargets = <<>> THEN [@ EXCEPT !.pc = "done"]
                                 ELSE InvokeCleanup(@, 1)]
  /\ UNCHANGED <<plans, currentPlanId, planLog, flow, agentKind, cleanable, memoryCap, memLog, toolChoices, maxSteps, state, currentStep, memory,
                 toolCalls, nextStepPrompt, llmCalls, finishedEver, loop>>

\* llm.askTool settles: the rest of think, then act up to its first pending
\* tool or, with nothing pending, the rest of the loop body
LlmRespondOf(c, limit, responses) ==
  /\ loop[c].pc = "think"
  /\ NoMicrotask
  /\ llmCalls < limit
  /\ \E response \in responses : Commit(step(TheAgent, loop[c], response), c)
  /\ llmCalls' = llmCalls + 1
  /\ UNCHANGED <<plans, currentPlanId, planLog, flow, agentKind, cleanable, memoryCap, memLog, toolChoices, maxSteps, call>>

\* the pending tool's execute settles
ToolRespondOf(c, outcomes) ==
  /\ loop[c].pc = "tool"
  /\ NoMicrotask
  /\ \E outcome \in outcomes : Commit(actResume(TheAgent, loop[c], outcome), c)
  /\ UNCHANGED <<plans, currentPlanId, planLog, flow, agentKind, cleanable, memoryCap, memLog, toolChoices, maxSteps, llmCalls, call>>

\* the step() of a plain BaseAgent subclass settles: it returns a result,
\* raises, or sets the state to FINISHED and returns
StepSettle(c) ==
  /\ loop[c].pc = "step"
  /\ NoMicrotask
  /\ \E outcome \in StepOutcomes :
       Commit(IF outcome = "raise" THEN StepRaise(TheAgent, loop[c])
              ELSE AfterStep(IF outcome = "finish"
                             THEN [TheAgent EXCEPT !.state = "FINISHED",
                                                   !.finishedEver = TRUE]
                             ELSE TheAgent,
                             loop[c], [k |-> "stepResult", obs |-> <<>>]), c)
  /\ UNCHANGED <<plans, currentPlanId, planLog, flow, agentKind, cleanable, memoryCap, memLog, toolChoices, maxSteps, llmCalls, call>>

\* the pending tool.cleanup() settles: a throw is caught and logged, the
\* for loop of cleanup() goes on; after the last tool run() returns the value
\* or re-throws the error of super.run()
CleanupOutcomes == {"ok", "throw"}

CleanupSettle(c) ==
  /\ call[c].pc = "cleanup"
  /\ NoMicrotask
  /\ \E outcome \in CleanupOutcomes :
       LET i == Len(call[c].cleaned)
           k == [call[c] EXCEPT !.cleaned[i].outcome = outcome]
       IN call' = [call EXCEPT ![c] = IF i < Len(cleanupTargets)
                                      THEN InvokeCleanup(k, i + 1)
                                      ELSE [k EXCEPT !.pc = "done"]]
  /\ UNCHANGED <<plans, currentPlanId, planLog, flow, agentKind, cleanable, memoryCap, memLog, toolChoices, maxSteps, state,
                 currentStep, memory, toolCalls, nextStepPrompt, llmCalls, finishedEver,
                 loop>>

\* the continuation of saveContext: catch and finally
SaveContextExit(c) ==
  /\ loop[c].pc \in SettledPc
  /\ state' = saveContextLeave(state, loop[c].prevState, loop[c].pc = "rejected")
  /\ loop' = [loop EXCEPT ![c].pc = IF loop[c].pc = "rejected" THEN "failed" ELSE "done"]
  /\ UNCHANGED <<plans, currentPlanId, planLog, flow, agentKind, cleanable, memoryCap, memLog, toolChoices, maxSteps, currentStep, memory, toolCalls,
                 nextStepPrompt, llmCalls, finishedEver, call>>

\* Spec is the life cycle of run() under several invocations: every run()
\* carries a request and an LLM response carries at most one tool call
RunCall(c) == RunCallOf(c, {TRUE})

LlmRespond(c) == LlmRespondOf(c, MaxLlmCalls, Responses(llmCalls + 1, 1))

ToolRespond(c) == ToolRespondOf(c, ToolOutcomes)

Next ==
  \/ \E c \in Runs : RunCall(c)
  \/ \E c \in Runs : Cleanup(c)
  \/ \E c \in Runs : LlmRespond(c)
  \/ \E c \in Runs : ToolRespond(c)
  \/ \E c \in Runs : StepSettle(c)
  \/ \E c \in Runs : SaveContextExit(c)

Spec == Init /\ [][Next]_vars

\* ---- SpecRace: the same program with more run() invocations --------------
\* The inputs are a part of those of Spec: run() without a request, an LLM
\* that answers nothing or asks for Terminate and then bash, tools that
\* succeed.  Every behaviour of SpecRace is a behaviour of the program.
RaceResponses(n) ==
  {[kind |-> "null", content |-> EmptyText, tool_calls |-> <<>>],
   [kind |-> "message", content |-> EmptyText,
    tool_calls |-> <<[id |-> <<n, 1>>, name |-> "Terminate", arguments |-> "ok"],
                     [id |-> <<n, 2>>, name |-> "bash", arguments |-> "ok"]>>]}

InitRace ==
  /\ agentKind \in {"base", "toolcall"}
  /\ cleanable = <<>>
  /\ memoryCap = maxMessages
  /\ memLog = NoLog
  /\ plans = NoPlans
  /\ currentPlanId = NoPlanId
  /\ planLog = NoPlanLog
  /\ flow = NoFlow
  /\ toolChoices = "auto"
  /\ maxSteps \in 0..MaxStepsBound
  /\ state = "IDLE"
  /\ currentStep = 0
  /\ memory = <<>>
  /\ toolCalls = <<>>
  /\ nextStepPrompt = 0
  /\ llmCalls = 0
  /\ finishedEver = FALSE
  /\ call = [c \in 1..RaceCallers |-> NoCall]
  /\ loop = [c \in 1..RaceCallers |-> NoLoop]

RunCallRace(c) == RunCallOf(c, {FALSE})

LlmRespondRace(c) == LlmRespondOf(c, RaceLlmCalls, RaceResponses(llmCalls + 1))

ToolRespondRace(c) == ToolRespondOf(c, {"ok"})

NextRace ==
  \/ \E c \in Runs : RunCallRace(c)
  \/ \E c \in Runs : Cleanup(c)
  \/ \E c \in Runs : LlmRespondRace(c)
  \/ \E c \in Runs : ToolRespondRace(c)
  \/ \E c \in Runs : StepSettle(c)
  \/ \E c \in Runs : SaveContextExit(c)

SpecRace == InitRace /\ [][NextRace]_vars

\* ---- SpecAct: one run() of a ToolCallAgent, one LLM response with a
\* longer tool-call list ---------------------------------------------------
InitAct ==
  /\ agentKind = "toolcall"
  /\ cleanable = <<>>
  /\ memoryCap = maxMessages
  /\ memLog = NoLog
  /\ plans = NoPlans
  /\ currentPlanId = NoPlanId
  /\ planLog = NoPlanLog
  /\ flow = NoFlow
  /\ toolChoices \in ToolChoice
  /\ maxSteps \in 0..MaxStepsBound
  /\ state = "IDLE"
  /\ currentStep = 0
  /\ memory = <<>>
  /\ toolCalls = <<>>
  /\ nextStepPrompt = 0
  /\ llmCalls = 0
  /\ finishedEver = FALSE
  /\ call = [c \in 1..1 |-> NoCall]
  /\ loop = [c \in 1..1 |-> NoLoop]

RunCallAct(c) == RunCallOf(c, BOOLEAN)

LlmRespondAct(c) == LlmRespondOf(c, 1, Responses(llmCalls + 1, ActCalls))

NextAct ==
  \/ \E c \in Runs : RunCallAct(c)
  \/ \E c \in Runs : Cleanup(c)
  \/ \E c \in Runs : LlmRespondAct(c)
  \/ \E c \in Runs : ToolRespond(c)
  \/ \E c \in Runs : SaveContextExit(c)

SpecAct == InitAct /\ [][NextAct]_vars

\* ---- SpecCleanup: agents whose tools have a cleanup() ----------------------
\* The LLM and the tools answer as in SpecRace; every run() carries a request.
CleanableLists == {<<>>, <<"bash">>, <<"Terminate">>, <<"bash", "Terminate">>}

InitCleanup ==
  /\ agentKind \in {"toolcall", "manus"}
  /\ cleanable \in CleanableLists
  /\ memoryCap = maxMessages
  /\ memLog = NoLog
  /\ plans = NoPlans
  /\ currentPlanId = NoPlanId
  /\ planLog = NoPlanLog
  /\ flow = NoFlow
  /\ toolChoices = "auto"
  /\ maxSteps \in 0..MaxStepsBound
  /\ state = "IDLE"
  /\ currentStep = 0
  /\ memory = <<>>
  /\ toolCalls = <<>>
  /\ nextStepPrompt = 0
  /\ llmCalls = 0
  /\ finishedEver = FALSE
  /\ call = [c \in Callers |-> NoCall]
  /\ loop = [c \in Callers |-> NoLoop]

LlmRespondCleanup(c) == LlmRespondOf(c, MaxLlmCalls, RaceResponses(llmCalls + 1))

NextCleanup ==
  \/ \E c \in Runs : RunCall(c)
  \/ \E c \in Runs : Cleanup(c)
  \/ \E c \in Runs : CleanupSettle(c)
  \/ \E c \in Runs : LlmRespondCleanup(c)
  \/ \E c \in Runs : ToolRespondRace(c)
  \/ \E c \in Runs : SaveContextExit(c)

SpecCleanup == InitCleanup /\ [][NextCleanup]_vars

\* ---- SpecMemory: the Memory of an idle agent, used from outside ------------
\* memory.maxMessages is a public field; the cap is drawn from 1..MaxCap.
\* The i-th message ever added carries the number i in its content.
Numbered(role, i) ==
  [role |-> role, content |-> [k |-> "m", n |-> i], tool_calls |-> <<>>,
   tool_call_id |-> NoId]

\* the lists of k messages that continue the numbering after `done` messages
Batches(done, k) ==
  {[i \in 1..k |-> Numbered(f[i], done + i)] : f \in [1..k -> {"user", "assistant"}]}

InitMemory ==
  /\ agentKind \in {"base", "toolcall"}
  /\ cleanable = <<>>
  /\ memoryCap \in 1..MaxCap
  /\ memLog = NoLog
  /\ plans = NoPlans
  /\ currentPlanId = NoPlanId
  /\ planLog = NoPlanLog
  /\ flow = NoFlow
  /\ toolChoices = "auto"
  /\ maxSteps \in 0..MaxStepsBound
  /\ state = "IDLE"
  /\ currentStep = 0
  /\ memory = <<>>
  /\ toolCalls = <<>>
  /\ nextStepPrompt = 0
  /\ llmCalls = 0
  /\ finishedEver = FALSE
  /\ call = [c \in 1..1 |-> NoCall]
  /\ loop = [c \in 1..1 |-> NoLoop]

UnchangedAgent ==
  UNCHANGED <<plans, currentPlanId, planLog, flow, agentKind, cleanable, memoryCap, toolChoices, maxSteps, state, currentStep,
              toolCalls, nextStepPrompt, llmCalls, finishedEver, call, loop>>

\* memory.addMessage(message)
AddMessage ==
  /\ Len(memLog.added) < MaxAdded
  /\ \E ms \in Batches(Len(memLog.added), 1) :
       /\ memory' = addMessage(memory, ms[1])
       /\ memLog' = [NoLog EXCEPT !.added = memLog.added \o ms]
  /\ UnchangedAgent

\* memory.addMessages(messages)
AddMessages ==
  /\ \E k \in 0..MaxBatch :
       /\ Len(memLog.added) + k <= MaxAdded
       /\ \E ms \in Batches(Len(memLog.added), k) :
            /\ memory' = addMessages(memory, ms)
            /\ memLog' = [NoLog EXCEPT !.added = memLog.added \o ms]
  /\ UnchangedAgent

\* memory.getRecentMessages(n)
GetRecentMessages ==
  /\ \E n \in 0..MaxRecent :
       memLog' = [memLog EXCEPT !.n = n, !.recent = getRecentMessages(memory, n),
                                !.asked = TRUE]
  /\ UNCHANGED memory
  /\ UnchangedAgent

NextMemory ==
  \/ AddMessage
  \/ AddMessages
  \/ GetRecentMessages

SpecMemory == InitMemory /\ [][NextMemory]_vars

\* ---- SpecCap: one run() of a ToolCallAgent whose memory has a small cap ----
\* The agent is constructed with a Memory whose maxMessages is 1..MaxCap; the
\* LLM answers nothing, or with one of two texts and at most a call to bash.
CapResponses(n) ==
  {[kind |-> "null", content |-> EmptyText, tool_calls |-> <<>>]}
  \cup {[kind |-> "message", content |-> ct, tool_calls |-> <<>>] :
          ct \in {Text("X"), Text("Y"), EmptyText}}
  \cup {[kind |-> "message", content |-> Text("X"),
          tool_calls |-> <<[id |-> <<n, 1>>, name |-> "bash", arguments |-> "ok"]>>]}

InitCap ==
  /\ agentKind = "toolcall"
  /\ cleanable = <<>>
  /\ memoryCap \in 1..MaxCap
  /\ memLog = NoLog
  /\ plans = NoPlans
  /\ currentPlanId = NoPlanId
  /\ planLog = NoPlanLog
  /\ flow = NoFlow
  /\ toolChoices = "auto"
  /\ maxSteps \in 0..CapSteps
  /\ state = "IDLE"
  /\ currentStep = 0
  /\ memory = <<>>
  /\ toolCalls = <<>>
  /\ nextStepPrompt = 0
  /\ llmCalls = 0
  /\ finishedEver = FALSE
  /\ call = [c \in 1..1 |-> NoCall]
  /\ loop = [c \in 1..1 |-> NoLoop]

LlmRespondCap(c) == LlmRespondOf(c, CapLlmCalls, CapResponses(llmCalls + 1))

NextCap ==
  \/ \E c \in Runs : RunCallAct(c)
  \/ \E c \in Runs : Cleanup(c)
  \/ \E c \in Runs : LlmRespondCap(c)
  \/ \E c \in Runs : ToolRespondRace(c)
  \/ \E c \in Runs : SaveContextExit(c)

SpecCap == InitCap /\ [][NextCap]_vars

\* ---- SpecStuck: repeated answers over several run() invocations -------------
\* A ToolCallAgent or a Manus whose LLM answers nothing or always the same
\* text; run() is called without a request, as in SpecRace.
StuckResponses ==
  {[kind |-> "null", content |-> EmptyText, tool_calls |-> <<>>],
   [kind |-> "message", content |-> Text("X"), tool_calls |-> <<>>]}

InitStuck ==
  /\ agentKind \in {"toolcall", "manus"}
  /\ cleanable = <<>>
  /\ memoryCap = maxMessages
  /\ memLog = NoLog
  /\ plans = NoPlans
  /\ currentPlanId = NoPlanId
  /\ planLog = NoPlanLog
  /\ flow = NoFlow
  /\ toolChoices = "auto"
  /\ maxSteps \in 0..MaxStepsBound
  /\ state = "IDLE"
  /\ currentStep = 0
  /\ memory = <<>>
  /\ toolCalls = <<>>
  /\ nextStepPrompt = 0
  /\ llmCalls = 0
  /\ finishedEver = FALSE
  /\ call = [c \in 1..RaceCallers |-> NoCall]
  /\ loop = [c \in 1..RaceCallers |-> NoLoop]

LlmRespondStuck(c) == LlmRespondOf(c, RaceLlmCalls, StuckResponses)

NextStuck ==
  \/ \E c \in Runs : RunCallRace(c)
  \/ \E c \in Runs : Cleanup(c)
  \/ \E c \in Runs : LlmRespondStuck(c)
  \/ \E c \in Runs : SaveContextExit(c)

SpecStuck == InitStuck /\ [][NextStuck]_vars

\* ---- SpecPlan: a PlanningTool used through execute() ----------------------
\* The plan ids an input may carry: none, two ordinary ids, of which only p1
\* is ever created, and a property name of Object.prototype.  update with an inherited key and an empty step
\* list is left out: it would write steps onto the shared function object.
GivenPlanIds == {NoPlanId, "p1", "p2"} \cup InheritedKeys
StepTexts == {"A", "B"}
StepLists(n) == UNION {[1..k -> StepTexts] : k \in 0..n}
GivenStatuses == {""} \cup PlanStatus \cup {"done"}

InitPlan ==
  /\ agentKind = "toolcall"
  /\ cleanable = <<>>
  /\ memoryCap = maxMessages
  /\ memLog = NoLog
  /\ plans = NoPlans
  /\ currentPlanId = NoPlanId
  /\ planLog = NoPlanLog
  /\ flow = NoFlow
  /\ toolChoices = "auto"
  /\ maxSteps = 0
  /\ state = "IDLE"
  /\ currentStep = 0
  /\ memory = <<>>
  /\ toolCalls = <<>>
  /\ nextStepPrompt = 0
  /\ llmCalls = 0
  /\ finishedEver = FALSE
  /\ call = [c \in 1..1 |-> NoCall]
  /\ loop = [c \in 1..1 |-> NoLoop]

UnchangedExecutor ==
  UNCHANGED <<agentKind, cleanable, memoryCap, memLog, toolChoices, maxSteps, state,
              currentStep, memory, toolCalls, nextStepPrompt, llmCalls, finishedEver,
              call, loop>>

\* await planningTool.execute(args), called from outside the flow
Apply(args) ==
  LET r == planningExecute(plans, currentPlanId, args)
  IN /\ plans' = r.plans
     /\ currentPlanId' = r.currentPlanId
     /\ planLog' = [command |-> args.command, threw |-> r.threw, n |-> planLog.n]
     /\ UNCHANGED flow
     /\ UnchangedExecutor

CreateArgs ==
  {a \in {[NoArgs EXCEPT !.command = "create", !.plan_id = id, !.title = title,
                         !.steps = steps, !.given = given] :
            id \in GivenPlanIds \ {"p2"}, title \in {"", "T"},
            given \in SUBSET {"steps"}, steps \in StepLists(MaxPlanSteps)} :
     a.given = {} => a.steps = <<>>}

UpdateArgs ==
  {a \in {[NoArgs EXCEPT !.command = "update", !.plan_id = id, !.title = title,
                         !.steps = steps, !.given = given] :
            id \in GivenPlanIds, title \in {"", "T"},
            given \in SUBSET {"steps"}, steps \in StepLists(MaxPlanSteps)} :
     /\ a.given = {} => a.steps = <<>>
     /\ ~(a.plan_id \in InheritedKeys /\ a.given # {} /\ a.steps = <<>>)}

GetArgs == {[NoArgs EXCEPT !.command = "get", !.plan_id = id] : id \in GivenPlanIds}

SetActiveArgs ==
  {[NoArgs EXCEPT !.command = "set_active", !.plan_id = id] : id \in GivenPlanIds}

MarkStepArgs ==
  {a \in {[NoArgs EXCEPT !.command = "mark_step", !.plan_id = id, !.step_index = i,
                         !.step_status = st, !.step_notes = notes, !.given = given] :
            id \in GivenPlanIds, given \in SUBSET {"step_index"}, i \in -1..MaxPlanSteps,
            st \in GivenStatuses, notes \in {"", "n"}} :
     a.given = {} => a.step_index = 0}

DeleteArgs == {[NoArgs EXCEPT !.command = "delete", !.plan_id = id] : id \in GivenPlanIds}

CreatePlan == \E args \in CreateArgs : Apply(args)

UpdatePlan == \E args \in UpdateArgs : Apply(args)

ListPlans == Apply([NoArgs EXCEPT !.command = "list"])

GetPlan == \E args \in GetArgs : Apply(args)

SetActivePlan == \E args \in SetActiveArgs : Apply(args)

MarkStep == \E args \in MarkStepArgs : Apply(args)

DeletePlan == \E args \in DeleteArgs : Apply(args)

UnknownCommand == Apply([NoArgs EXCEPT !.command = "bogus"])

NextPlan ==
  \/ CreatePlan
  \/ UpdatePlan
  \/ ListPlans
  \/ GetPlan
  \/ SetActivePlan
  \/ MarkStep
  \/ DeletePlan
  \/ UnknownCommand

SpecPlan == InitPlan /\ [][NextPlan]_vars

\* ---- SpecRetitle: plans that are given a new title ---------------------------
\* The commands of SpecPlan without mark_step, with update commands that
\* carry a title and, at most, a list of one step that may not be a string.
RetitleArgs ==
  {a \in {[NoArgs EXCEPT !.command = "update", !.plan_id = id, !.title = title,
                         !.steps = steps, !.given = given] :
            id \in GivenPlanIds, title \in {"", "U"},
            given \in SUBSET {"steps"}, steps \in {<<>>, <<"A">>, <<NonString>>}} :
     /\ a.given = {} => a.steps = <<>>
     /\ ~(a.plan_id \in InheritedKeys /\ a.given # {} /\ a.steps = <<>>)}

Retitle == \E args \in RetitleArgs : Apply(args)

NextRetitle ==
  \/ CreatePlan
  \/ Retitle
  \/ GetPlan
  \/ SetActivePlan
  \/ DeletePlan

SpecRetitle == InitPlan /\ [][NextRetitle]_vars

\* ---- SpecFlow: PlanningFlow.execute with a ToolCallAgent as executor ------
\* One execute(inputText) with a non-empty input.  The executor has the tools
\* of toolMap, of which bash may have a cleanup() that takes I/O; its LLM
\* answers nothing or asks for Terminate and then bash.  The planning tool
\* may be shared (config.planning_tool), so commands can reach it between
\* the jobs of the flow.
FlowStepLists == {[i \in 1..k |-> IF i = 1 THEN "A" ELSE "B"] : k \in 1..FlowSteps}

PlanCall(name, parses, args) == [name |-> name, parses |-> parses, args |-> args]

createArgs(title, steps) ==
  [NoArgs EXCEPT !.command = "create", !.plan_id = "other", !.title = title,
                 !.steps = steps, !.given = {"steps"}]

\* what the flow's llm.askTool may settle with
PlanResponses ==
  {[kind |-> "throw", tool_calls |-> <<>>], [kind |-> "null", tool_calls |-> <<>>]}
  \cup {[kind |-> "message", tool_calls |-> tc] :
          tc \in {<<>>,
                  <<PlanCall("planning", FALSE, NoArgs)>>,
                  <<PlanCall("other", TRUE, NoArgs)>>,
                  <<PlanCall("planning", TRUE, createArgs("", <<"A">>))>>,
                  <<PlanCall("planning", TRUE, [NoArgs EXCEPT !.command = "list"])>>}
                 \cup {<<PlanCall("planning", FALSE, NoArgs),
                         PlanCall("planning", TRUE, createArgs("T", steps))>> :
                         steps \in FlowStepLists}}

\* the commands that reach the shared planning tool beside the flow
FlowCommandArgs ==
  {markArgs("p1", i, st) : i \in 0..(FlowSteps - 1), st \in PlanStatus}
  \cup {[NoArgs EXCEPT !.command = "update", !.plan_id = "p1", !.steps = steps,
                       !.given = {"steps"}] : steps \in {<<>>, <<"A">>}}
  \cup {[NoArgs EXCEPT !.command = "delete", !.plan_id = "p1"]}

InitFlow ==
  /\ agentKind = "toolcall"
  /\ cleanable \in {<<>>, <<"bash">>}
  /\ memoryCap = maxMessages
  /\ memLog = NoLog
  /\ plans = NoPlans
  /\ currentPlanId = NoPlanId
  /\ planLog = NoPlanLog
  /\ flow = [NoFlow EXCEPT !.activePlanId = "p1"]
  /\ toolChoices = "auto"
  /\ maxSteps \in 0..1
  /\ state = "IDLE"
  /\ currentStep = 0
  /\ memory = <<>>
  /\ toolCalls = <<>>
  /\ nextStepPrompt = 0
  /\ llmCalls = 0
  /\ finishedEver = FALSE
  /\ call = [c \in 1..FlowRuns |-> NoCall]
  /\ loop = [c \in 1..FlowRuns |-> NoLoop]

UnchangedAgentState ==
  UNCHANGED <<agentKind, cleanable, memoryCap, memLog, toolChoices, maxSteps, state,
              currentStep, memory, toolCalls, nextStepPrompt, llmCalls, finishedEver, loop>>

\* the continuation of saveContext was queued before any continuation of the flow
SaveContextFirst == \A d \in Runs : loop[d].pc \notin SettledPc

HasSlot == \E c \in Runs : call[c].pc = "ready"

NextSlot == CHOOSE c \in Runs : call[c].pc = "ready" /\ \A d \in Runs : d < c => call[d].pc # "ready"

FlowReturn(f, text) == [f EXCEPT !.pc = "returned", !.ret = text]

executeCatch_rethrows(f, err) == [f EXCEPT !.pc = "rejected", !.ret = err]

\* the catch block of execute: the error that reached it becomes the text
\* execute() returns
executeCatch(f, err) == FlowReturn(f, "Execution failed")

\* execute(inputText) is called: createInitialPlan up to `await llm.askTool`
FlowExecute ==
  /\ flow.pc = "idle"
  /\ flow' = [flow EXCEPT !.pc = "planAsk"]
  /\ UNCHANGED <<plans, currentPlanId, planLog, call>>
  /\ UnchangedAgentState

\* llm.askTool settles: the rest of createInitialPlan, then the check that
\* the plan exists; a throw reaches the catch of execute
PlanRespond ==
  /\ flow.pc = "planAsk"
  /\ NoMicrotask
  /\ \E response \in PlanResponses :
       LET r == createInitialPlan(plans, currentPlanId, flow.activePlanId, response)
           k == firstPlanningCall(response.tool_calls)
           f == [flow EXCEPT !.planned = IF response.kind = "throw" THEN "throw"
                                          ELSE IF k > 0 THEN "call" ELSE "none"]
       IN /\ plans' = r.plans
          /\ currentPlanId' = r.currentPlanId
          /\ planLog' = IF k > 0
                        THEN [planLog EXCEPT !.command = response.tool_calls[k].args.command,
                                             !.threw = r.threw]
                        ELSE planLog
          /\ flow' = IF r.threw # "none" THEN executeCatch(f, r.threw)
                     ELSE IF ~InPlans(r.plans, flow.activePlanId)
                     THEN FlowReturn(f, "Failed to create plan")
                     ELSE [f EXCEPT !.pc = "select"]
  /\ UNCHANGED call
  /\ UnchangedAgentState

\* the head of the while loop: getCurrentStepInfo, then either finalizePlan
\* up to `await llm.ask` or executeStep up to the call of executor.run
FlowSelect ==
  /\ flow.pc = "select"
  /\ SaveContextFirst
  /\ LET planId == flow.activePlanId
         i == IF planId \in DOMAIN plans THEN firstActive(plans[planId]) ELSE 0
         r == markStep(plans, currentPlanId, markArgs(planId, i - 1, "in_progress"))
         text == getPlan(r.plans, r.currentPlanId, [NoArgs EXCEPT !.command = "get",
                                                                  !.plan_id = planId])
     IN IF planId = NoPlanId \/ ~InPlans(plans, planId) \/ i = 0
        THEN /\ flow' = [flow EXCEPT !.pc = "finalAsk", !.currentStepIndex = -1]
             /\ planLog' = [planLog EXCEPT !.command = "get",
                              !.threw = getPlan(plans, currentPlanId,
                                                [NoArgs EXCEPT !.command = "get",
                                                               !.plan_id = planId]).threw]
             /\ UNCHANGED plans
        ELSE IF r.threw # "none"
        THEN /\ flow' = IF loggerWarning # "none" THEN executeCatch(flow, loggerWarning)
                        ELSE [flow EXCEPT !.pc = "run", !.currentStepIndex = i - 1,
                                          !.c = NextSlot]
             /\ planLog' = [planLog EXCEPT !.command = "mark_step", !.threw = r.threw]
             /\ UNCHANGED plans
        ELSE /\ HasSlot
             /\ flow' = [flow EXCEPT !.pc = "run", !.currentStepIndex = i - 1, !.c = NextSlot]
             /\ planLog' = [planLog EXCEPT !.command = "get", !.threw = text.threw]
             /\ plans' = r.plans
  /\ UNCHANGED <<currentPlanId, call>>
  /\ UnchangedAgentState

\* executor.run(stepPrompt) or, in finalizePlan, agent.run(summaryPrompt)
RunCallFlow(c) ==
  /\ flow.pc \in {"run", "finalRun"}
  /\ c = flow.c
  /\ SaveContextFirst
  /\ RunCallOf(c, {TRUE})

\* after `await executor.run(stepPrompt)`: markStepCompleted, or the catch
\* block of executeStep; then the test of the executor's state.  The record
\* of a rejected run() is dropped, the next invocation takes its place.
FlowAfterRun ==
  /\ flow.pc = "run"
  /\ call[flow.c].pc = "done"
  /\ SaveContextFirst
  /\ LET ran == call[flow.c].kind = "value"
         r == markStepCompleted(plans, currentPlanId, flow.activePlanId, flow.currentStepIndex)
     IN /\ plans' = IF ran THEN r.plans ELSE plans
        /\ planLog' = IF ran THEN [planLog EXCEPT !.command = "mark_step", !.threw = r.threw]
                      ELSE planLog
        /\ flow' = [flow EXCEPT !.last = IF ran /\ r.threw = "none" THEN "value" ELSE "error",
                                !.pc = IF state = "FINISHED" THEN "returned" ELSE "select",
                                !.ret = IF state = "FINISHED" THEN "result" ELSE @]
        /\ call' = IF ran THEN call ELSE [call EXCEPT ![flow.c] = NoCall]
  /\ UNCHANGED currentPlanId
  /\ UnchangedAgentState

\* llm.ask of finalizePlan settles: with a summary execute() returns; after a
\* throw the summary is asked from the primary agent
FinalOutcomes == {"ok", "throw"}

FinalRespond ==
  /\ flow.pc = "finalAsk"
  /\ NoMicrotask
  /\ \E outcome \in FinalOutcomes :
       IF outcome = "ok" THEN flow' = FlowReturn(flow, PlanCompleted)
       ELSE /\ HasSlot
            /\ flow' = [flow EXCEPT !.pc = "finalRun", !.c = NextSlot]
  /\ UNCHANGED <<plans, currentPlanId, planLog, call>>
  /\ UnchangedAgentState

\* after `await agent.run(summaryPrompt)`: execute() returns either way
FlowAfterFinalRun ==
  /\ flow.pc = "finalRun"
  /\ call[flow.c].pc = "done"
  /\ SaveContextFirst
  /\ flow' = FlowReturn(flow, finalizeAfterRun(call[flow.c].kind))
  /\ call' = IF call[flow.c].kind = "value" THEN call ELSE [call EXCEPT ![flow.c] = NoCall]
  /\ UNCHANGED <<plans, currentPlanId, planLog>>
  /\ UnchangedAgentState

\* a command reaches the shared planning tool while the flow waits
PlanCommand ==
  /\ flow.pc \notin {"idle", "planAsk"}
  /\ NoMicrotask
  /\ planLog.n < FlowCommands
  /\ \E args \in FlowCommandArgs :
       LET r == planningExecute(plans, currentPlanId, args)
       IN /\ plans' = r.plans
          /\ currentPlanId' = r.currentPlanId
          /\ planLog' = [command |-> args.command, threw |-> r.threw, n |-> planLog.n + 1]
  /\ UNCHANGED <<flow, call>>
  /\ UnchangedAgentState

LlmRespondFlow(c) == LlmRespondOf(c, FlowLlmCalls, RaceResponses(llmCalls + 1))

NextFlow ==
  \/ FlowExecute
  \/ PlanRespond
  \/ FlowSelect
  \/ \E c \in Runs : RunCallFlow(c)
  \/ \E c \in Runs : Cleanup(c)
  \/ \E c \in Runs : CleanupSettle(c)
  \/ FlowAfterRun
  \/ FinalRespond
  \/ FlowAfterFinalRun
  \/ PlanCommand
  \/ \E c \in Runs : LlmRespondFlow(c)
  \/ \E c \in Runs : ToolRespondRace(c)
  \/ \E c \in Runs : SaveContextExit(c)

SpecFlow == InitFlow /\ [][NextFlow]_vars

\* the event loop runs a job whenever one is ready
SpecFlowFair == SpecFlow /\ WF_vars(NextFlow)

\* ---- execute() on a flow whose plan may exist already ----------------------
\* The flow is constructed with plan_id 'p1' and a planning tool that is
\* either new or holds the plan an earlier execute() of a flow with the same
\* tool and id created, with its steps not yet run or all completed.
leftPlan(steps, status) ==
  LET r == planningExecute(NoPlans, NoPlanId, [createArgs("T", steps) EXCEPT !.plan_id = "p1"])
  IN [r EXCEPT !.plans["p1"].step_statuses = [i \in 1..Len(steps) |-> status]]

InitAgain ==
  /\ agentKind = "toolcall"
  /\ cleanable = <<>>
  /\ memoryCap = maxMessages
  /\ memLog = NoLog
  /\ \E r \in {ToolResult(NoPlans, NoPlanId)}
               \cup {leftPlan(steps, st) : steps \in FlowStepLists,
                                           st \in {"not_started", "completed"}} :
       /\ plans = r.plans
       /\ currentPlanId = r.currentPlanId
  /\ planLog = NoPlanLog
  /\ flow = [NoFlow EXCEPT !.activePlanId = "p1"]
  /\ toolChoices = "auto"
  /\ maxSteps \in 0..1
  /\ state = "IDLE"
  /\ currentStep = 0
  /\ memory = <<>>
  /\ toolCalls = <<>>
  /\ nextStepPrompt = 0
  /\ llmCalls = 0
  /\ finishedEver = FALSE
  /\ call = [c \in 1..FlowRuns |-> NoCall]
  /\ loop = [c \in 1..FlowRuns |-> NoLoop]

NextAgain ==
  \/ FlowExecute
  \/ PlanRespond
  \/ FlowSelect
  \/ \E c \in Runs : RunCallFlow(c)
  \/ \E c \in Runs : Cleanup(c)
  \/ FlowAfterRun
  \/ FinalRespond
  \/ FlowAfterFinalRun
  \/ \E c \in Runs : LlmRespondFlow(c)
  \/ \E c \in Runs : ToolRespondRace(c)
  \/ \E c \in Runs : SaveContextExit(c)

SpecAgain == InitAgain /\ [][NextAgain]_vars

\* ---- the claims ----------------------------------------------------------

StepsExecuted(c) ==
  Cardinality({i \in DOMAIN loop[c].results : loop[c].results[i].rec = "Step"})

\* the run() call of c has handed a value to its caller
Returned(c) == call[c].pc = "done" /\ call[c].kind = "value"

\* C1: an agent with maxSteps = k whose step() never sets the state to
\* FINISHED has, when a run() call is over, executed exactly k steps in it,
\* and the state is IDLE and currentStep is 0.
C1_StepBudget ==
  \A c \in Runs :
    (Returned(c) /\ ~finishedEver)
      => /\ StepsExecuted(c) = maxSteps
         /\ state = "IDLE"
         /\ currentStep = 0

\* C3: if step() raises during run(), that run() call fails with the
\* exception: it does not hand a result to its caller.
C3_StepErrorPropagates ==
  \A c \in Runs : loop[c].pc \in {"rejected", "failed"} => call[c].kind # "value"

\* C4: if step() raises during run(), the agent is in state ERROR once the
\* run has exited because of the exception.
C4_ErrorStateAfterRaise ==
  [][\A c \in Runs :
       (loop[c].pc = "rejected" /\ loop'[c].pc = "failed") => state' = "ERROR"]_vars

\* C6: the text run() returns is the join of one "Step n" record for every
\* step the run executed, then the "Terminated" record when the step limit
\* was hit; "No steps executed" is returned only for a run of zero steps.
C6_ReturnedTextIsTheRecords ==
  \A c \in Runs :
    (call[c].kind = "value" /\ loop[c].pc = "done")
      => call[c].text = RunText(loop[c].results)

\* C7: at most one execution loop of the agent is active at a time.
C7_SingleFlight ==
  Cardinality({c \in Runs : loop[c].pc \in ActivePc}) <= 1

\* C2: a run() call made in a state other than IDLE fails with an Error,
\* the same for every such state, and changes neither currentStep nor
\* memory (the request is not appended); it starts no loop.
C2_RunOutsideIdleFails ==
  [][\A c \in Runs :
       (call[c].pc = "ready" /\ call'[c].pc # "ready" /\ state # "IDLE")
         => /\ call'[c].kind = "Error"
            /\ call'[c].seen = state
            /\ currentStep' = currentStep
            /\ memory' = memory
            /\ state' = state
            /\ loop' = loop]_vars

\* a run() call with a request was refused while the state was FINISHED
C2_Witness ==
  \E c \in Runs :
    /\ call[c].kind = "Error"
    /\ call[c].seen = "FINISHED"
    /\ call[c].request

\* C5: when the loop of a run has exited and saveContext is left, the state
\* is not RUNNING; after an exit by FINISHED or by the step limit it is the
\* state held before RUNNING was entered, IDLE, which run() accepts.
C5_LoopExitLeavesRunning ==
  [][\A c \in Runs :
       (loop[c].pc \in SettledPc /\ loop'[c].pc \notin SettledPc)
         => /\ state' # "RUNNING"
            /\ loop[c].pc = "returned"
                 => /\ state' = loop[c].prevState
                    /\ state' = "IDLE"
                    /\ ~runRejects(state')]_vars

\* a loop that ran a step which set FINISHED has exited, and a later run()
\* call was accepted
C5_Witness ==
  \E c, d \in Runs :
    /\ c < d
    /\ loop[c].pc = "done"
    /\ StepsExecuted(c) > 0
    /\ finishedEver
    /\ state = "IDLE"
    /\ call[d].kind = "value"

\* the ids of the tool messages of memory that belong to the calls of `calls`
ToolIdsOf(msgs, calls) ==
  LET ids == {calls[i].id : i \in DOMAIN calls}
      own(m) == m.role = "tool" /\ m.tool_call_id \in ids
      kept == SelectSeq(msgs, own)
  IN [i \in DOMAIN kept |-> kept[i].tool_call_id]

\* C8: act() takes the tool calls of the decision in their order: the tool
\* messages it has appended to memory are, in order, one per call handled
\* so far, each with the id of its own call.
C8_ToolMessagesInCallOrder ==
  \A c \in Runs :
    loop[c].idx > 0
      => ToolIdsOf(memory, loop[c].calls)
           = [i \in 1..(loop[c].idx - 1) |-> loop[c].calls[i].id]

\* act() has handled a decision of three calls, all three dispatched to tools
C8_Witness ==
  \E c \in Runs :
    /\ Len(loop[c].calls) = 3
    /\ loop[c].idx = 4
    /\ \A i \in 1..3 : loop[c].observed[i].how \in ToolOutcomes
    /\ Len(memory) >= 4

ErrorTexts == {ObsUnknownTool, ObsInvalidJson, ObsProblem, ObsFailure}

\* C9: a failing tool call never aborts act(): unparseable arguments, an
\* unknown tool and a throwing tool each give an error text that is appended
\* to memory as the tool message of that call, act() does not throw, and
\* the calls after it are handled too.
C9_FailingCallsDegrade ==
  \A c \in Runs :
    /\ agentKind = "toolcall" => loop[c].pc \notin {"rejected", "failed"}
    /\ loop[c].pc # "tool" /\ loop[c].idx > 0 => loop[c].idx = Len(loop[c].calls) + 1
    /\ Len(loop[c].observed) = (IF loop[c].idx > 0 THEN loop[c].idx - 1 ELSE 0)
    /\ \A i \in DOMAIN loop[c].observed :
         LET o == loop[c].observed[i]
             command == loop[c].calls[i]
             failing == \/ command.name \notin toolMap
                        \/ command.arguments = "bad"
                        \/ o.how = "throw"
         IN /\ failing => o.obs \in ErrorTexts
            /\ \E j \in DOMAIN memory : memory[j] = toolMessage(o.obs, command.id)

\* a decision whose first call failed and whose second call was executed
C9_Witness ==
  \E c \in Runs :
    /\ Len(loop[c].observed) = 2
    /\ loop[c].observed[1].how \in {"unknown", "syntax", "throw"}
    /\ loop[c].observed[2].how = "ok"
    /\ loop[c].pc \in {"think", "returned", "done"}

\* the LLM call of loop c settles in this transition
ThinkSettles(c) ==
  loop[c].pc = "think" /\ llmCalls' = llmCalls + 1 /\ loop'[c] # loop[c]

\* the result of the step that this transition completes in loop c
StepResultOf(c) == loop'[c].results[Len(loop[c].results) + 1].r

\* C11: under the REQUIRED policy, when the LLM returns a message with zero
\* tool calls, think() returns true and act() fails (ToolCallRequired): the
\* step raises.
C11_RequiredWithoutCallsFails ==
  [][\A c \in Runs :
       (/\ ThinkSettles(c)
        /\ toolChoices = "required"
        /\ loop'[c].thought.kind = "message"
        /\ loop'[c].thought.calls = 0)
         => /\ loop'[c].thought.ret
            /\ loop'[c].pc = "rejected"]_vars

\* C12: under the AUTO policy, a message with zero tool calls and non-empty
\* content makes think() return true and act() return exactly that content;
\* with neither tool calls nor content think() returns false.
C12_AutoContentIsTheResult ==
  [][\A c \in Runs :
       (/\ ThinkSettles(c)
        /\ toolChoices = "auto"
        /\ loop'[c].thought.kind = "message"
        /\ loop'[c].thought.calls = 0)
         => IF Truthy(loop'[c].thought.content)
            THEN /\ loop'[c].thought.ret
                 /\ Len(loop'[c].results) > Len(loop[c].results)
                 /\ StepResultOf(c) = [k |-> "content", obs |-> <<loop'[c].thought.content>>]
            ELSE ~loop'[c].thought.ret]_vars

\* C13: under the NONE policy the tool calls of a response are ignored: no
\* tool is executed, no tool message is appended, and think() returns true
\* exactly when the response has content.
C13_NonePolicyIgnoresCalls ==
  toolChoices = "none"
    => /\ \A i \in DOMAIN memory : memory[i].role # "tool"
       /\ \A c \in Runs :
            /\ loop[c].pc # "tool"
            /\ loop[c].observed = <<>>
            /\ loop[c].thought.kind = "message"
                 => loop[c].thought.ret = Truthy(loop[c].thought.content)

\* C14: when the LLM call returns nothing or throws, think() does not
\* propagate it: it returns false, one assistant message describing the
\* error is appended to memory, the step ends with the no-action result and
\* the loop goes on to its next step or returns; the state is never ERROR.
C14_FailedThinkIsRecorded ==
  [][\A c \in Runs :
       (ThinkSettles(c) /\ loop'[c].thought.kind \in {"null", "throw"})
         => /\ ~loop'[c].thought.ret
            /\ LET recorded == addMessage(memory, assistantMessage(ErrorEncountered))
               IN \/ memory' = recorded
                  \* the next step has begun and pushed its prompt
                  \/ /\ loop'[c].pc = "think"
                     /\ memory' = Append(recorded, userMessage(PromptText(nextStepPrompt')))
            /\ Len(loop'[c].results) > Len(loop[c].results)
            /\ StepResultOf(c) = ThinkingComplete
            /\ loop'[c].pc \in {"think", "returned"}
            /\ state' # "ERROR"]_vars

\* a loop whose LLM call failed has gone on to a further step, which ended
\* as well
C14_Witness ==
  \E c \in Runs :
    /\ StepsExecuted(c) = 2
    /\ loop[c].results[1].r = ThinkingComplete
    /\ \E j \in DOMAIN memory : memory[j] = assistantMessage(ErrorEncountered)
    /\ loop[c].pc = "done"
    /\ state = "IDLE"

\* the tool message at position j of msgs answers a call that an assistant
\* message before it lists
Answered(msgs, j) ==
  \E i \in 1..(j - 1) :
    /\ msgs[i].role = "assistant"
    /\ \E k \in DOMAIN msgs[i].tool_calls : msgs[i].tool_calls[k].id = msgs[j].tool_call_id

\* C15: every tool message of the agent's memory carries the id of a tool
\* call listed by an assistant message earlier in the same memory.
C15_ToolMessagesAnswerACall ==
  \A j \in DOMAIN memory : memory[j].role = "tool" => Answered(memory, j)

\* C16: no cleanup() of a tool has been invoked for a run() call while a
\* step of that run is pending or the run has steps to come: cleanup comes
\* after the loop of the run has ended.
C16_CleanupAfterTheRun ==
  \A c \in Runs :
    call[c].cleaned # <<>> => loop[c].pc \notin (ActivePc \cup SettledPc)

\* C17: when a run() call of a ToolCallAgent is over, cleanup() has been
\* invoked once on every tool that has it, in map order, whatever the earlier
\* cleanups did, and run() hands on what super.run() gave: a throwing
\* cleanup is not re-thrown.
C17_EveryToolCleanedOnce ==
  \A c \in Runs :
    (call[c].pc = "done" /\ agentKind # "base")
      => /\ [i \in DOMAIN call[c].cleaned |-> call[c].cleaned[i].tool] = cleanable
         /\ \A i \in DOMAIN call[c].cleaned : call[c].cleaned[i].outcome \in CleanupOutcomes
         /\ call[c].kind = (IF runRejects(call[c].seen) THEN "Error" ELSE "value")

\* the last n elements of msgs, all of them when there are fewer
LastOf(msgs, n) ==
  IF Len(msgs) >= n THEN SubSeq(msgs, Len(msgs) - n + 1, Len(msgs)) ELSE msgs

\* C18: after every addMessage and addMessages call the memory holds at
\* most maxMessages messages, and they are the most recent maxMessages of
\* all messages ever added, in their order.
C18_MemoryKeepsTheMostRecent ==
  /\ Len(memory) <= memoryCap
  /\ memory = LastOf(memLog.added, memoryCap)

\* more messages were added than the cap holds, the last ones by addMessages
C18_Witness ==
  /\ Len(memLog.added) >= memoryCap + 2
  /\ memoryCap >= 2
  /\ Len(memory) = memoryCap
  /\ memory[1].content.n = Len(memLog.added) - memoryCap + 1

\* C20: getRecentMessages(n) returns the last n messages in order when the
\* memory holds at least n, all messages when it holds fewer, and leaves
\* the memory as it was.
C20_RecentIsTheLastN ==
  [][(memLog'.asked /\ memLog' # memLog)
       => /\ memory' = memory
          /\ memLog'.recent = LastOf(memory, memLog'.n)]_vars

\* C19: the agent's memory holds at most maxMessages messages in every
\* reachable state of a run, the state in which think() has added the
\* next-step prompt and waits for the LLM included.
C19_AgentMemoryWithinCap ==
  Len(memory) <= memoryCap

\* C21: isStuck() is true when the last message has content X and at least
\* duplicateThreshold earlier assistant messages have content X; it is false
\* with only duplicateThreshold - 1 such messages, when the last message has
\* no content, and when memory holds fewer than two messages.  run() calls
\* isStuck() after every step and, on true, handleStuckState() extends
\* nextStepPrompt; the next step's think() then pushes that prompt.
StepCompletes(c) ==
  /\ loop[c].pc \in ActivePc
  /\ Len(loop'[c].results) > Len(loop[c].results)

MemoryAtIsStuck(c) ==
  IF loop'[c].pc = "think" /\ nextStepPrompt' > 0
  THEN SubSeq(memory', 1, Len(memory') - 1)
  ELSE memory'

EarlierMatches(m) ==
  Cardinality({i \in 1..(Len(m) - 1) :
                 m[i].role = "assistant" /\ m[i].content = m[Len(m)].content})

C21_IsStuckCountsDuplicates ==
  [][\A c \in Runs :
       StepCompletes(c) =>
         LET m == MemoryAtIsStuck(c)
             stuck == nextStepPrompt' # nextStepPrompt
         IN /\ Len(m) < 2 => ~stuck
            /\ Len(m) >= 1 /\ m[Len(m)].content = EmptyText => ~stuck
            /\ Len(m) >= 2 /\ m[Len(m)].content # EmptyText =>
                 /\ EarlierMatches(m) >= duplicateThreshold => stuck
                 /\ EarlierMatches(m) = duplicateThreshold - 1 => ~stuck]_vars

C21_Witness ==
  /\ nextStepPrompt > 0
  /\ Len(memory) >= 3
  /\ \E c \in Runs : Len(loop[c].results) >= 3

\* C22: the step PlanningFlow selects is the lowest-index step whose status
\* is not_started or in_progress: every earlier step is completed or blocked.
FlowSelects == flow.pc = "select" /\ flow'.pc = "run"

C22_SelectsLowestActiveStep ==
  [][FlowSelects =>
       LET plan == plans[flow.activePlanId]
           i == flow'.currentStepIndex + 1
       IN /\ i \in 1..Len(plan.steps)
          /\ plan.step_statuses[i] \in {"not_started", "in_progress"}
          /\ \A j \in 1..(i - 1) : plan.step_statuses[j] \in {"completed", "blocked"}]_vars

C22_Witness ==
  /\ flow.pc = "run"
  /\ flow.currentStepIndex = 1
  /\ flow.activePlanId \in DOMAIN plans
  /\ plans[flow.activePlanId].step_statuses = <<"blocked", "in_progress">>

\* C23: PlanningFlow marks a step completed and goes on to select the next
\* one only after the loop of the executor's run() for that step has
\* finished all its steps.
C23_StepCompletedAfterItsLoop ==
  [][(flow.pc = "run" /\ flow'.pc # "run" /\ flow'.last = "value") =>
       loop[flow.c].pc \notin ActivePc]_vars

\* C24: after the executor's run() for a plan step has returned normally the
\* status of that step is completed, whether mark_step succeeded or not.
C24_CompletionNeverLost ==
  [][(flow.pc = "run" /\ flow'.pc # "run" /\ call[flow.c].kind = "value"
        /\ flow.activePlanId \in DOMAIN plans) =>
       /\ flow.activePlanId \in DOMAIN plans'
       /\ Len(plans'[flow.activePlanId].step_statuses) > flow.currentStepIndex
       /\ plans'[flow.activePlanId].step_statuses[flow.currentStepIndex + 1] = "completed"]_vars

\* C25: once the executor has invoked the termination tool while running a
\* plan step, PlanningFlow starts no later plan step.
C25_FinishedStopsTheFlow ==
  [][(finishedEver /\ flow.pc = "select") => flow'.pc # "run"]_vars

\* C26: execute() eventually returns: a step whose run() failed is not
\* selected again without bound.  Stated for executors whose cleanup() takes
\* no I/O, where the flow never waits for the executor's LLM, and up to the
\* point where the run() invocations of the model are used up.
C26_ExecuteEventuallyReturns ==
  (cleanable = <<>>) => <>(flow.pc = "returned" \/ ~HasSlot)

\* C27: when the plan-creation response carries no planning call, or only
\* ones whose arguments do not parse, createInitialPlan creates the default
\* plan under the active plan id: three steps, all not_started.
C27_DefaultPlanWithoutPlanningCall ==
  [][(flow.pc = "planAsk" /\ flow'.planned = "none") =>
       /\ flow.activePlanId \in DOMAIN plans'
       /\ plans'[flow.activePlanId].steps = DefaultSteps
       /\ plans'[flow.activePlanId].step_statuses =
            [i \in 1..Len(DefaultSteps) |-> "not_started"]]_vars

C29_UpdateKeepsUnchangedSteps ==
  [][(planLog'.command = "update" /\ planLog'.threw = "none") =>
       \A id \in DOMAIN plans :
         /\ id \in DOMAIN plans'
         /\ \A i \in 1..Len(plans'[id].steps) :
              IF i <= Len(plans[id].steps) /\ plans'[id].steps[i] = plans[id].steps[i]
              THEN /\ plans'[id].step_statuses[i] = plans[id].step_statuses[i]
                   /\ plans'[id].step_notes[i] = plans[id].step_notes[i]
              ELSE /\ plans'[id].step_statuses[i] = "not_started"
                   /\ plans'[id].step_notes[i] = ""]_vars

C29_Witness ==
  /\ planLog.command = "update"
  /\ planLog.threw = "none"
  /\ \E id \in DOMAIN plans :
       /\ plans[id].steps = <<"B">>
       /\ plans[id].step_statuses = <<"completed">>
       /\ plans[id].step_notes = <<"n">>

\* C30: a planning command with malformed input throws instead of returning
\* status text: create without plan_id, title or a non-empty step list or
\* with an existing id; update, set_active and delete without plan_id or
\* with an unknown one; get and mark_step with an unknown plan id or with
\* none while no plan is active; mark_step without step_index or with one
\* outside the plan's steps.
Addressed(args) == IF args.plan_id = NoPlanId THEN currentPlanId ELSE args.plan_id

Malformed(args) ==
  CASE args.command = "create" ->
         \/ args.plan_id = NoPlanId
         \/ args.title = ""
         \/ "steps" \notin args.given
         \/ args.steps = <<>>
         \/ args.plan_id \in DOMAIN plans
    [] args.command \in {"update", "set_active", "delete"} ->
         args.plan_id \notin DOMAIN plans
    [] args.command = "get" -> Addressed(args) \notin DOMAIN plans
    [] args.command = "mark_step" ->
         \/ Addressed(args) \notin DOMAIN plans
         \/ "step_index" \notin args.given
         \/ args.step_index \notin 0..(Len(plans[Addressed(args)].steps) - 1)
    [] OTHER -> FALSE

C30_MalformedInputThrows ==
  \A args \in CreateArgs \cup UpdateArgs \cup GetArgs \cup SetActiveArgs
                \cup MarkStepArgs \cup DeleteArgs :
    Malformed(args) => planningExecute(plans, currentPlanId, args).threw # "none"

\* the same for the plan ids that are not property names of Object.prototype
C30_OrdinaryIdsThrow ==
  \A args \in CreateArgs \cup UpdateArgs \cup GetArgs \cup SetActiveArgs
                \cup MarkStepArgs \cup DeleteArgs :
    (Malformed(args) /\ args.plan_id \notin InheritedKeys /\ currentPlanId \notin InheritedKeys)
      => planningExecute(plans, currentPlanId, args).threw = "ToolError"

\* the results of loop c end with the "Terminated" record
EndsTerminated(c) ==
  /\ Len(loop[c].results) > 0
  /\ loop[c].results[Len(loop[c].results)].rec = "Terminated"

\* C31: the step-limit termination (the "Terminated" record, currentStep
\* back to 0) happens only when the loop left at the step limit and not
\* because the state became FINISHED: a run in which a step executed a
\* special tool, which ended its loop, has no "Terminated" record.
C31_NoTerminatedAfterFinished ==
  \A c \in Runs :
    (loop[c].specialAt > 0 /\ loop[c].pc \in {"returned", "done"})
      => ~EndsTerminated(c)

\* supporting C31: a loop that leaves gets the "Terminated" record, and
\* currentStep goes back to 0, exactly when currentStep has reached maxSteps,
\* whatever the state is at that moment
C31_TerminatedIffAtStepLimit ==
  [][\A c \in Runs :
       (loop[c].pc # "returned" /\ loop'[c].pc = "returned")
         => IF currentStep >= maxSteps
            THEN /\ Len(loop'[c].results) > 0
                 /\ loop'[c].results[Len(loop'[c].results)].rec = "Terminated"
                 /\ currentStep' = 0
                 /\ state' = "IDLE"
            ELSE /\ \A i \in DOMAIN loop'[c].results : loop'[c].results[i].rec = "Step"
                 /\ currentStep' = currentStep
                 /\ state' = "FINISHED"]_vars

\* the number of tool messages in msgs
ToolMessages(msgs) == Cardinality({i \in DOMAIN msgs : msgs[i].role = "tool"})

\* C32: within one step act() is invoked exactly when think() has returned
\* true, and after it.  When think() returns false the step's result is
\* "Thinking complete - no action needed" and the step executes no tool.
\* Between the tool executions of one step no LLM call is made: the next
\* call to the LLM comes when every tool call of the decision is handled.
C32_ActFollowsThink ==
  [][\A c \in Runs :
       /\ ThinkSettles(c) /\ loop'[c].pc # "rejected"
            => IF loop'[c].thought.ret
               THEN \* act() has taken over the decision of this think()
                    /\ loop'[c].calls = toolCalls'
                    /\ loop'[c].idx >= 1
                    /\ Len(loop'[c].results) > Len(loop[c].results)
                         => StepResultOf(c) = ActResult(loop'[c].actResults)
                    /\ loop'[c].pc = "tool" => Len(loop'[c].results) = Len(loop[c].results)
               ELSE /\ Len(loop'[c].results) > Len(loop[c].results)
                    /\ StepResultOf(c) = ThinkingComplete
                    /\ loop'[c].pc # "tool"
                    /\ loop'[c].idx = loop[c].idx
                    /\ loop'[c].observed = loop[c].observed
                    /\ ToolMessages(memory') = ToolMessages(memory)
       /\ loop[c].pc = "tool" /\ loop'[c] # loop[c]
            => /\ loop[c].thought.ret
               /\ llmCalls' = llmCalls
               /\ loop'[c].pc = "think" => loop'[c].idx = Len(loop'[c].calls) + 1
               /\ loop'[c].idx <= Len(loop'[c].calls) => loop'[c].pc = "tool"]_vars

\* a step whose think() returned true has executed two tools, one after the
\* other, and the loop has gone on to the LLM call of its next step
C32_Witness ==
  \E c \in Runs :
    /\ loop[c].thought.ret
    /\ Len(loop[c].observed) >= 2
    /\ \A i \in DOMAIN loop[c].observed : loop[c].observed[i].how \in ToolOutcomes
    /\ loop[c].pc = "think"
    /\ StepsExecuted(c) = 1

\* a step whose think() returned false: recorded, no tool touched
C32_WitnessNoAction ==
  \E c \in Runs :
    /\ ~loop[c].thought.ret
    /\ loop[c].thought.kind = "message"
    /\ loop[c].thought.calls > 0
    /\ StepsExecuted(c) = 1
    /\ loop[c].results[1].r = ThinkingComplete

\* C33: stuck handling is cumulative: every step after which isStuck()
\* holds puts one more copy of the corrective sentence in front of
\* nextStepPrompt, and nothing else changes nextStepPrompt, so the prompt
\* starts with as many copies as there were stuck detections and never
\* loses one.
C33_StuckPromptOnlyGrows ==
  [][/\ nextStepPrompt' >= nextStepPrompt
     /\ \A c \in Runs :
          StepCompletes(c)
            => nextStepPrompt' = nextStepPrompt
                                   + (IF isStuck(MemoryAtIsStuck(c)) THEN 1 ELSE 0)
     /\ (\A c \in Runs : ~StepCompletes(c)) => nextStepPrompt' = nextStepPrompt]_vars

\* supporting C33: the same for an agent whose think() is ToolCallAgent.think
C33_ToolCallAgentPromptOnlyGrows ==
  [][agentKind = "toolcall" =>
       /\ nextStepPrompt' >= nextStepPrompt
       /\ \A c \in Runs :
            StepCompletes(c)
              => nextStepPrompt' = nextStepPrompt
                                     + (IF isStuck(MemoryAtIsStuck(c)) THEN 1 ELSE 0)
       /\ (\A c \in Runs : ~StepCompletes(c)) => nextStepPrompt' = nextStepPrompt]_vars

\* two stuck detections have left two copies in front of the prompt
C33_TwoCopies == nextStepPrompt = 2

\* C34: a special tool forces the state to FINISHED only through a
\* successful execution: when the state has been set to FINISHED, some call
\* to a special tool was executed and its execution succeeded.  A special
\* call whose arguments do not parse, or whose execution throws or returns
\* a failure, leaves the state as it is.
C34_FinishedOnlyBySuccess ==
  finishedEver
    => \E c \in Runs : \E i \in DOMAIN loop[c].observed :
         /\ isSpecialTool(loop[c].calls[i].name)
         /\ loop[c].observed[i].how = "ok"

\* supporting C34: FINISHED is set only after the execution of a special
\* tool has settled; unknown names and unparseable arguments never set it
C34_FinishedOnlyByExecution ==
  finishedEver
    => \E c \in Runs : \E i \in DOMAIN loop[c].observed :
         /\ isSpecialTool(loop[c].calls[i].name)
         /\ loop[c].calls[i].name \in toolMap
         /\ loop[c].calls[i].arguments = "ok"
         /\ loop[c].observed[i].how \in ToolOutcomes

\* the active plan of the flow has a step whose status is not_started or
\* in_progress
ActiveStepLeft ==
  /\ flow.activePlanId \in DOMAIN plans
  /\ \E i \in DOMAIN plans[flow.activePlanId].steps :
       plans[flow.activePlanId].step_statuses[i] \in {"not_started", "in_progress"}

\* C35: the flow turns to the final summary only in a state where no step of
\* the active plan is not_started or in_progress, and never selects a step
\* after that.  When the LLM's summary fails the request goes to the primary
\* agent's run(), and whether that returns or fails execute() returns a
\* "Plan completed" text.
C35_FinalizeWhenNoStepIsLeft ==
  [][/\ (flow.pc # "finalAsk" /\ flow'.pc = "finalAsk")
          => flow.pc = "select" /\ ~ActiveStepLeft /\ plans' = plans
     /\ flow.pc = "finalAsk" => flow'.pc \in {"finalAsk", "finalRun", "returned"}
     /\ (flow.pc # "finalRun" /\ flow'.pc = "finalRun") => flow.pc = "finalAsk"
     /\ flow.pc = "finalRun" => flow'.pc \in {"finalRun", "returned"}
     /\ (flow.pc = "finalAsk" /\ flow'.pc = "returned") => flow'.ret = PlanCompleted
     /\ (flow.pc = "finalRun" /\ flow'.pc = "returned")
          => flow'.ret = (IF call[flow.c].kind = "value" THEN PlanCompletedByAgent
                          ELSE PlanCompletedNoSummary)]_vars

\* every step of a plan of two steps is completed, the LLM's summary and
\* the primary agent's run() have both failed, and execute() has returned
C35_Witness ==
  /\ flow.pc = "returned"
  /\ flow.ret = PlanCompletedNoSummary
  /\ flow.activePlanId \in DOMAIN plans
  /\ plans[flow.activePlanId].step_statuses = <<"completed", "completed">>

\* C36: currentStep goes back to 0 only when a run reaches the step limit; a
\* run that ends because the state became FINISHED leaves it at its last
\* value, so the next run() counts on from it and executes at most
\* maxSteps - currentStep steps; currentStep is always within 0..maxSteps.
C36_StepCounterCarriesOver ==
  [][/\ currentStep' \in 0..maxSteps
     /\ currentStep' < currentStep => currentStep' = 0 /\ currentStep = maxSteps
     /\ \A c \in Runs :
          /\ loop'[c].begun <= maxSteps - loop'[c].startStep
          /\ (loop[c].pc # "returned" /\ loop'[c].pc = "returned" /\ currentStep < maxSteps)
               => currentStep' = currentStep]_vars

\* supporting C36: the counter is within its bounds, and is reset only at
\* the step limit, in every behaviour
C36_StepCounterWithinBounds ==
  [][/\ currentStep' \in 0..maxSteps
     /\ currentStep' < currentStep => currentStep' = 0 /\ currentStep = maxSteps]_vars

\* call i of the decision loop c is handling comes after a call to a special
\* tool that was executed
AfterSpecial(c, i) ==
  \E j \in 1..(i - 1) :
    /\ isSpecialTool(loop[c].calls[j].name)
    /\ loop[c].observed[j].how \in ToolOutcomes

\* C37: the tool calls listed after a special call in the same decision are
\* still executed and their tool messages appended although the state is
\* already FINISHED: act() goes through the whole list, and the step ends
\* only when every call of the decision is handled.
C37_CallsAfterSpecialStillRun ==
  \A c \in Runs :
    /\ (loop[c].specialAt > 0 /\ loop[c].pc # "tool")
         => Len(loop[c].observed) = Len(loop[c].calls)
    /\ (loop[c].pc = "tool" /\ AfterSpecial(c, loop[c].idx)) => state = "FINISHED"
    /\ \A i \in DOMAIN loop[c].observed :
         AfterSpecial(c, i)
           => /\ \E k \in DOMAIN memory :
                   memory[k] = toolMessage(loop[c].observed[i].obs, loop[c].calls[i].id)
              /\ (loop[c].calls[i].name \in toolMap /\ loop[c].calls[i].arguments = "ok")
                   => loop[c].observed[i].how \in ToolOutcomes

\* the special tool came first in a decision of three calls; the two calls
\* after it were executed and the step has ended
C37_Witness ==
  \E c \in Runs :
    /\ Len(loop[c].calls) = 3
    /\ isSpecialTool(loop[c].calls[1].name)
    /\ Len(loop[c].observed) = 3
    /\ \A i \in 1..3 : loop[c].observed[i].how = "ok"
    /\ ToolMessages(memory) = 3
    /\ finishedEver
    /\ loop[c].pc \in {"returned", "done"}

\* C38: a planning tool command that fails with an error leaves the tool as
\* it was: the plan ids, every plan's title, steps, step_statuses and
\* step_notes, and the active plan id.
C38_FailedCommandChangesNothing ==
  [][planLog'.threw # "none" => plans' = plans /\ currentPlanId' = currentPlanId]_vars

\* supporting C38: the same for the commands that fail with the tool's own
\* error, a ToolError; it holds as long as every step given is a string
C38_ToolErrorChangesNothing ==
  [][planLog'.threw = "ToolError" => plans' = plans /\ currentPlanId' = currentPlanId]_vars

\* C39: after any sequence of planning tool commands the active plan id is
\* unset or the id of a plan that exists: create makes the new plan the
\* active one, set_active takes only the id of an existing plan, deleting
\* the active plan unsets it and deleting another plan leaves it as it is.
C39_ActivePlanExists ==
  [][/\ currentPlanId' = NoPlanId \/ currentPlanId' \in DOMAIN plans'
     /\ (planLog'.command = "create" /\ planLog'.threw = "none")
          => /\ currentPlanId' \in DOMAIN plans' \ DOMAIN plans
     /\ (planLog'.command = "delete" /\ planLog'.threw = "none")
          => /\ currentPlanId \in DOMAIN plans' => currentPlanId' = currentPlanId
             /\ currentPlanId \in DOMAIN plans \ DOMAIN plans' => currentPlanId' = NoPlanId
     /\ (planLog'.command = "set_active" /\ planLog'.threw = "none")
          => currentPlanId' \in DOMAIN plans
     /\ planLog'.command \notin {"create", "set_active", "delete"}
          => currentPlanId' = currentPlanId]_vars

\* supporting C39: the only active plan id that is not a plan of the tool
\* is a property name `in` finds on Object.prototype
C39_ActivePlanExistsOrIsInherited ==
  currentPlanId \in {NoPlanId} \cup DOMAIN plans \cup InheritedKeys

\* C40: PlanningFlow.execute never rejects.  It is either still running or
\* has returned a text; an error of llm.askTool, of the planning tool's
\* create command (a plan with the flow's id exists already, or the title is
\* missing) or of the default-plan branch makes it return "Execution
\* failed", a plan that is missing after createInitialPlan makes it return
\* "Failed to create plan", and an executeStep that failed left its error
\* text as the step's result while execute() went on.
FlowTexts ==
  {"Execution failed", "Failed to create plan", "result",
   PlanCompleted, PlanCompletedByAgent, PlanCompletedNoSummary}

C40_WitnessStepError ==
  /\ flow.pc = "select"
  /\ flow.last = "error"
  /\ InPlans(plans, flow.activePlanId)

\* C10: once act() has executed a special tool, the state is FINISHED while
\* the step lasts and the loop of that run starts no further step.
C10_SpecialToolEndsTheLoop ==
  \A c \in Runs :
    loop[c].specialAt > 0
      => /\ loop[c].begun = loop[c].specialAt
         /\ loop[c].pc = "tool" => state = "FINISHED"

====
